---- MODULE Spec2Model ----
(***************************************************************************)
(* Verification model of the clearway AIP lookup service: the scraper      *)
(* registry cache of app.py, the navigation ladders of the per-country     *)
(* Playwright scrapers, the operational-hours extraction and the browser   *)
(* life cycle of a get_airport_info session.                               *)
(***************************************************************************)
EXTENDS Integers, Sequences, FiniteSets, TLC

\* ------------------------------------------------------------------ bounds
NumThreads == 2
MaxInstances == 2
MaxCleanups == 1

\* =========================================================================
\* Part 1. app.py get_scraper / cleanup_scraper and scraper_registry.py
\* =========================================================================

Threads == 1..NumThreads

\* 'USA' and 'FRANCE' are country names of AIRPORT_CODE_PREFIXES (FRANCE stands
\* for every registered country other than the default, whether or not its
\* module can be imported); 'ATLANTIS' stands for any name not in the table.
Countries == {"USA", "FRANCE", "ATLANTIS"}

AIRPORT_CODE_PREFIXES == {"USA", "FRANCE"}

\* get_scraper falls back to this country (app.py line 121).
DefaultCountryBroken(c) == c
DefaultCountry(c) == "USA"

\* None is 0; instances are numbered from 1 in order of construction.
None == 0

VARIABLES
    scraper_instances,  \* app.py: country -> instance (None: no entry)
    scraper_lock,       \* app.py: the thread inside `with scraper_lock`, or None
    scraper_cache,      \* scraper_registry._scraper_cache: countries whose class is loaded
    pc,                 \* per thread: position in get_scraper / cleanup_scraper
    req,                \* per thread: the country get_scraper was called with
    country,            \* per thread: the local variable `country`
    scraper,            \* per thread: the local variable `scraper`
    result,             \* per thread: what the call returned (None: raised or none yet)
    built,              \* history: built[i] = [country, epoch] of instance i
    epoch,              \* history: number of cleanup_scraper calls completed
    closed,             \* history: instances cleanup_scraper has closed
    primaryFailed,      \* history, per thread: get_scraper_instance(req) returned None
    usaAttempts,        \* history, per thread: constructor attempts for the default
    retEpoch,           \* history, per thread: epoch in which the call returned
    initFailed,         \* history, per thread: a strategy constructor raised in the call
    setupFailed,        \* history, per thread: get_airport_info raised in its setup
    http                \* per thread: status of the response (0: none yet)

regVars == <<scraper_instances, scraper_lock, scraper_cache, pc, req, country,
             scraper, result, built, epoch, closed, primaryFailed, usaAttempts,
             retEpoch, initFailed, setupFailed, http>>


VARIABLES
    hpc,              \* route handler: "idle", "scrape", "responded"
    status,           \* HTTP status of the response (0: none yet)
    response,         \* keys of the JSON object of the response
    aip_data,         \* keys the AIP-extracted data holds for this airport
    strat,            \* the strategy get_scraper returned
    npc,              \* position in the strategy's get_airport_info
    landing,          \* what the landing page offers: "primary", "fallback", "none", "n/a"
    current_aip_url,  \* "unset", "resolved" or "default" (Latvia's hard-coded edition)
    anchor,           \* the navigation frame holds an anchor for the airport
    hrefOk,           \* that anchor's href ends in .html
    pageHasCode,      \* the current page text contains the airport code
    pageLen,          \* length of the current page text
    attempts,         \* history: fallbacks attempted, in order
    acceptedBy,       \* history: the attempt whose text was accepted, or "none"
    gotoFailed,       \* history: the last navigation attempt raised
    directIdx,        \* index of the direct URL convention tried next
    extracted,        \* history: field extraction ran
    failedAt,         \* history: the step whose exception left get_airport_info
    record,           \* keys of the record get_airport_info returned
    idleTimeouts      \* history: steps whose network-idle wait timed out

navVars == <<hpc, status, response, aip_data, strat, npc, landing,
             current_aip_url, anchor, hrefOk, pageHasCode, pageLen, attempts,
             acceptedBy, gotoFailed, directIdx, extracted, failedAt, record,
             idleTimeouts>>

VARIABLES
    text,      \* the page text handed to _parse_operational_hours, as tokens
    parser,    \* whose _parse_operational_hours runs: "BASE" or "LATVIA"
    hours,     \* the list _parse_operational_hours returned
    parsed     \* the function has returned

hoursVars == <<text, parser, hours, parsed>>

VARIABLES
    kind,           \* the class of the cached strategy instance
    inst,           \* its fields self.playwright, self.browser, self.page
    spc,            \* position of each session in get_airport_info
    driver,         \* state of the Playwright driver each session started
    browser,        \* state of the browser each session launched
    browserDriver,  \* the driver each browser was launched on
    closedBy,       \* the session whose teardown ended each browser
    pageBrowser,    \* the browser each session's page was opened on
    ran,            \* the pages each session's page operations ran on
    exc             \* an exception is propagating through the finally block

sessVars == <<kind, inst, spc, driver, browser, browserDriver, closedBy,
              pageBrowser, ran, exc>>

VARIABLES
    code,      \* the airport code as submitted, a sequence of characters
    det,       \* what country_detector.get_country_from_code returned
    reg,       \* what scraper_registry.get_country_from_code returned
    out,       \* the lookups /api/airport made for the code
    resolved   \* the functions have returned

resVars == <<code, det, reg, out, resolved>>

VARIABLES
    countries_data,  \* country_detector._countries_data: "None", "data" or "empty" ([])
    query,           \* the code every call of this run is made with
    inJson,          \* the JSON file has an entry for the country of the code
    dpc,             \* per caller: position in get_country_from_code
    dlocal,          \* per caller: the local countries_data
    didLoad,         \* per caller: the call found _countries_data unset
    returned         \* history: the results returned so far

detVars == <<countries_data, query, inJson, dpc, dlocal, didLoad, returned>>

VARIABLES
    tlen,       \* length of a page text, in characters
    headerAt,   \* offset of the section's header in the text, -1 when absent
    nextAt,     \* offsets at which the next section's header occurs
    extractor,  \* the function that cuts the section: "hours" or "traffic"
    section,    \* the segment it searched: [from, to)
    cut         \* the function has run

secVars == <<tlen, headerAt, nextAt, extractor, section, cut>>

VARIABLES
    fixture,    \* the page text of an operational-hours table, as tokens
    fparser,    \* the scraper whose _parse_operational_hours reads it
    fresult,    \* the four fields it reports
    fdone       \* the parser has run

fixVars == <<fixture, fparser, fresult, fdone>>

VARIABLES
    klabel,     \* the field whose row the text holds
    kvalue,     \* the value written in that row
    kparser,    \* the scraper whose _parse_operational_hours reads the row
    kentries,   \* the entries it returns
    kagain,     \* the entries it returns for a row holding the value it reported
    kstep       \* 0 before the first parse, 1 after it, 2 after the second

rowVars == <<klabel, kvalue, kparser, kentries, kagain, kstep>>

VARIABLES
    rfield,     \* the remarks field of the record
    rpage,      \* length of the remarks text on the scraped page, 0 for none
    rpdf,       \* length of the remarks text matched in the AIP document, 0 for none
    rscraperOk, \* the scraper's get_airport_info returns a record
    raip,       \* length of the 'remarks' value of the AIP data, 0 for None
    rrecord,    \* length of the field's value in the record, 0 while absent
    rpc         \* "extract" -> "scrape" -> "merge" -> "done"

remVars == <<rfield, rpage, rpdf, rscraperOk, raip, rrecord, rpc>>

VARIABLES
    estrat,     \* the strategy of the cached instance: "LATVIA" or "GEORGIA"
    published,  \* the edition the landing page currently offers
    stored,     \* the edition URL held by the instance (base_url / current_aip_url), 0 for None
    opened,     \* the edition the running session opened, 0 before it opens one
    fresh,      \* the running session read the landing page to resolve the edition
    epc,        \* "idle" | "setup" | "opened" | "raised"
    sessions    \* sessions the instance has finished

edVars == <<estrat, published, stored, opened, fresh, epc, sessions>>

VARIABLES
    minfo,      \* airport_info as the scraper returned it: field -> value, "absent" for no key
    mentry,     \* the AIP-extracted data holds an entry for the airport
    maip,       \* the entry's value for each mapped field: "None", "" or a text
    mresponse,  \* airport_info after the merge
    mdone       \* the merge has run

mergeVars == <<minfo, mentry, maip, mresponse, mdone>>

VARIABLES
    rows,       \* the rows of table airport_cache
    today,      \* date.today()
    uniqueKey,  \* the table rejects a second row for one (airport_code, date)
    inserted,   \* rows inserted so far (the id of the last one)
    lastCached, \* per airport code: the data and date of the last successful cache_airport
    cacheOk,    \* the value the last cache_airport returned
    got         \* the value the last get_cached_airport returned

cacheVars == <<rows, today, uniqueKey, inserted, lastCached, cacheOk, got>>

VARIABLES
    cached,     \* scraper_instances at cleanup: per slot the close style of the instance, "ABSENT" for none
    cbrowser,   \* per slot: the instance's browser is open
    cdriver,    \* per slot: the instance's Playwright driver runs
    wasCached,  \* history: the slots scraper_instances held when cleanup_scraper began
    todo,       \* the slots the for loop has still to visit
    logged,     \* the slots whose close raised into cleanup_scraper's except
    cpc         \* cleanup_scraper's position: "idle", "loop", "done"

cleanupVars == <<cached, cbrowser, cdriver, wasCached, todo, logged, cpc>>

\* The variables each part leaves alone.
notReg == <<navVars, hoursVars, sessVars, resVars, detVars, secVars, fixVars, rowVars, remVars, edVars, mergeVars, cacheVars, cleanupVars>>
notNav == <<regVars, hoursVars, sessVars, resVars, detVars, secVars, fixVars, rowVars, remVars, edVars, mergeVars, cacheVars, cleanupVars>>
notHours == <<regVars, navVars, sessVars, resVars, detVars, secVars, fixVars, rowVars, remVars, edVars, mergeVars, cacheVars, cleanupVars>>
notSess == <<regVars, navVars, hoursVars, resVars, detVars, secVars, fixVars, rowVars, remVars, edVars, mergeVars, cacheVars, cleanupVars>>
notRes == <<regVars, navVars, hoursVars, sessVars, detVars, secVars, fixVars, rowVars, remVars, edVars, mergeVars, cacheVars, cleanupVars>>
notDet == <<regVars, navVars, hoursVars, sessVars, resVars, secVars, fixVars, rowVars, remVars, edVars, mergeVars, cacheVars, cleanupVars>>
notSec == <<regVars, navVars, hoursVars, sessVars, resVars, detVars, fixVars, rowVars, remVars, edVars, mergeVars, cacheVars, cleanupVars>>
notFix == <<regVars, navVars, hoursVars, sessVars, resVars, detVars, secVars, rowVars, remVars, edVars, mergeVars, cacheVars, cleanupVars>>

notRow == <<regVars, navVars, hoursVars, sessVars, resVars, detVars, secVars, fixVars, remVars, edVars, mergeVars, cacheVars, cleanupVars>>
notRem == <<regVars, navVars, hoursVars, sessVars, resVars, detVars, secVars, fixVars, rowVars, edVars, mergeVars, cacheVars, cleanupVars>>
notEd == <<regVars, navVars, hoursVars, sessVars, resVars, detVars, secVars, fixVars, rowVars, remVars, mergeVars, cacheVars, cleanupVars>>
notMerge == <<regVars, navVars, hoursVars, sessVars, resVars, detVars, secVars, fixVars, rowVars, remVars, edVars, cacheVars, cleanupVars>>
notCache == <<regVars, navVars, hoursVars, sessVars, resVars, detVars, secVars, fixVars, rowVars, remVars, edVars, mergeVars, cleanupVars>>
notCleanup == <<regVars, navVars, hoursVars, sessVars, resVars, detVars, secVars, fixVars, rowVars, remVars, edVars, mergeVars, cacheVars>>
vars == <<regVars, navVars, hoursVars, sessVars, resVars, detVars, secVars, fixVars, rowVars, remVars, edVars, mergeVars, cacheVars, cleanupVars>>

RegInit ==
    /\ scraper_instances = [c \in Countries |-> None]
    /\ scraper_lock = None
    /\ scraper_cache = {}
    /\ pc = [t \in Threads |-> "idle"]
    /\ req = [t \in Threads |-> "USA"]
    /\ country = [t \in Threads |-> "USA"]
    /\ scraper = [t \in Threads |-> None]
    /\ result = [t \in Threads |-> None]
    /\ built = <<>>
    /\ epoch = 0
    /\ closed = {}
    /\ primaryFailed = [t \in Threads |-> FALSE]
    /\ usaAttempts = [t \in Threads |-> 0]
    /\ retEpoch = [t \in Threads |-> 0]
    /\ initFailed = [t \in Threads |-> FALSE]
    /\ setupFailed = [t \in Threads |-> FALSE]
    /\ http = [t \in Threads |-> 0]

\* `with scraper_lock:` is entered only when no thread holds the lock.
LockFreeBroken == TRUE
LockFree == scraper_lock = None

\* load_scraper_class: the outcomes the import machinery can produce for a
\* country.  A class already in _scraper_cache is returned; a country that is
\* no value of AIRPORT_CODE_PREFIXES has no class; otherwise the import
\* succeeds ("class") or raises ImportError/AttributeError ("noclass").
load_scraper_class(c) ==
    IF c \in scraper_cache THEN {"class"}
    ELSE IF c \notin AIRPORT_CODE_PREFIXES THEN {"noclass"}
    ELSE {"class", "noclass"}

\* get_scraper_instance(c): the set of <<outcome, new _scraper_cache>> pairs.
\* "ok": scraper_class() returned an instance; "none": no class, or the
\* constructor raised and the exception was swallowed.
get_scraper_instance(c) ==
    { <<"none", scraper_cache>> : x \in {o \in load_scraper_class(c) : o = "noclass"} }
    \cup { <<o, scraper_cache \cup {c}>> :
             o \in IF "class" \in load_scraper_class(c) THEN {"ok", "none"} ELSE {} }

\* A request thread calls get_scraper(c).
Call(t, c) ==
    /\ pc[t] = "idle"
    /\ pc' = [pc EXCEPT ![t] = "acquire"]
    /\ req' = [req EXCEPT ![t] = c]
    /\ country' = [country EXCEPT ![t] = c]
    /\ UNCHANGED <<scraper_instances, scraper_lock, scraper_cache, scraper, result,
                   built, epoch, closed, primaryFailed, usaAttempts, retEpoch>>
    /\ UNCHANGED <<initFailed, setupFailed, http>>
    /\ UNCHANGED notReg

\* app.py line 116: with scraper_lock
Acquire(t) ==
    /\ pc[t] = "acquire"
    /\ LockFree
    /\ scraper_lock' = t
    /\ pc' = [pc EXCEPT ![t] = "check"]
    /\ UNCHANGED <<scraper_instances, scraper_cache, req, country, scraper, result,
                   built, epoch, closed, primaryFailed, usaAttempts, retEpoch>>
    /\ UNCHANGED <<initFailed, setupFailed, http>>
    /\ UNCHANGED notReg

\* app.py line 117: if country not in scraper_instances
Check(t) ==
    /\ pc[t] = "check"
    /\ pc' = [pc EXCEPT ![t] =
                IF scraper_instances[country[t]] = None THEN "create" ELSE "result"]
    /\ UNCHANGED <<scraper_instances, scraper_lock, scraper_cache, req, country,
                   scraper, result, built, epoch, closed, primaryFailed,
                   usaAttempts, retEpoch>>
    /\ UNCHANGED <<initFailed, setupFailed, http>>
    /\ UNCHANGED notReg

\* app.py lines 118-122 and 126-127: the constructor attempt for the
\* requested country; on None the local country becomes the default.
Create(t) ==
    /\ pc[t] = "create"
    /\ \E o \in get_scraper_instance(country[t]) :
        /\ scraper_cache' = o[2]
        /\ usaAttempts' = [usaAttempts EXCEPT ![t] =
                             IF country[t] = "USA" THEN @ + 1 ELSE @]
        /\ IF o[1] = "ok"
           THEN /\ Len(built) < MaxInstances
                /\ built' = Append(built, [country |-> country[t], epoch |-> epoch])
                /\ scraper' = [scraper EXCEPT ![t] = Len(built) + 1]
                /\ scraper_instances' =
                       [scraper_instances EXCEPT ![country[t]] = Len(built) + 1]
                /\ pc' = [pc EXCEPT ![t] = "result"]
                /\ UNCHANGED <<country, primaryFailed>>
           ELSE /\ scraper' = [scraper EXCEPT ![t] = None]
                /\ primaryFailed' = [primaryFailed EXCEPT ![t] = TRUE]
                /\ country' = [country EXCEPT ![t] = DefaultCountry(country[t])]
                /\ pc' = [pc EXCEPT ![t] =
                            IF scraper_instances[DefaultCountry(country[t])] = None
                            THEN "create_default" ELSE "result"]
                /\ UNCHANGED <<built, scraper_instances>>
    /\ UNCHANGED <<scraper_lock, req, result, epoch, closed, retEpoch>>
    /\ initFailed' = [initFailed EXCEPT ![t] =
                         @ \/ (scraper'[t] = None /\ country[t] \in scraper_cache')]
    /\ UNCHANGED <<setupFailed, http>>
    /\ UNCHANGED notReg

\* app.py lines 123-125: the constructor attempt for the default country.
CreateDefault(t) ==
    /\ pc[t] = "create_default"
    /\ \E o \in get_scraper_instance(country[t]) :
        /\ scraper_cache' = o[2]
        /\ usaAttempts' = [usaAttempts EXCEPT ![t] =
                             IF country[t] = "USA" THEN @ + 1 ELSE @]
        /\ IF o[1] = "ok"
           THEN /\ Len(built) < MaxInstances
                /\ built' = Append(built, [country |-> country[t], epoch |-> epoch])
                /\ scraper' = [scraper EXCEPT ![t] = Len(built) + 1]
                /\ scraper_instances' =
                       [scraper_instances EXCEPT ![country[t]] = Len(built) + 1]
           ELSE /\ scraper' = [scraper EXCEPT ![t] = None]
                /\ UNCHANGED <<built, scraper_instances>>
    /\ pc' = [pc EXCEPT ![t] = "result"]
    /\ UNCHANGED <<scraper_lock, req, country, result, epoch, closed,
                   primaryFailed, retEpoch>>
    /\ initFailed' = [initFailed EXCEPT ![t] =
                         @ \/ (scraper'[t] = None /\ country[t] \in scraper_cache')]
    /\ UNCHANGED <<setupFailed, http>>
    /\ UNCHANGED notReg

\* app.py lines 129-133: result = scraper_instances.get(country); raise when
\* it is None, return it otherwise; either way the lock is released.
Result(t) ==
    /\ pc[t] = "result"
    /\ result' = [result EXCEPT ![t] = scraper_instances[country[t]]]
    /\ pc' = [pc EXCEPT ![t] =
                IF scraper_instances[country[t]] = None THEN "raised" ELSE "returned"]
    /\ retEpoch' = [retEpoch EXCEPT ![t] = epoch]
    /\ scraper_lock' = IF scraper_lock = t THEN None ELSE scraper_lock
    /\ UNCHANGED <<scraper_instances, scraper_cache, req, country, scraper, built,
                   epoch, closed, primaryFailed, usaAttempts>>
    /\ UNCHANGED <<initFailed, setupFailed, http>>
    /\ UNCHANGED notReg

\* app.py lines 183-185: an exception of scraper.get_airport_info is caught
\* and the record starts empty.
SwallowScraperFailureBroken == FALSE
SwallowScraperFailure == TRUE

\* app.py lines 175-185 and 233-235: an exception of get_scraper is answered
\* 500 by the outer handler; with a strategy in hand the handler calls its
\* get_airport_info, whose per-call browser setup may raise, and answers 200
\* whether or not it raised.
Respond(t) ==
    /\ pc[t] \in {"raised", "returned"}
    /\ pc' = [pc EXCEPT ![t] = "responded"]
    /\ IF pc[t] = "raised"
       THEN /\ http' = [http EXCEPT ![t] = 500]
            /\ UNCHANGED setupFailed
       ELSE \E setupOk \in BOOLEAN :
              /\ setupFailed' = [setupFailed EXCEPT ![t] = ~setupOk]
              /\ http' = [http EXCEPT ![t] =
                            IF ~setupOk /\ ~SwallowScraperFailure THEN 500 ELSE 200]
    /\ UNCHANGED <<scraper_instances, scraper_lock, scraper_cache, req, country,
                   scraper, result, built, epoch, closed, primaryFailed,
                   usaAttempts, retEpoch, initFailed>>
    /\ UNCHANGED notReg

\* The request is over; the locals of the call are gone.
Finish(t) ==
    /\ pc[t] = "responded"
    /\ pc' = [pc EXCEPT ![t] = "idle"]
    /\ req' = [req EXCEPT ![t] = "USA"]
    /\ country' = [country EXCEPT ![t] = "USA"]
    /\ scraper' = [scraper EXCEPT ![t] = None]
    /\ result' = [result EXCEPT ![t] = None]
    /\ primaryFailed' = [primaryFailed EXCEPT ![t] = FALSE]
    /\ usaAttempts' = [usaAttempts EXCEPT ![t] = 0]
    /\ retEpoch' = [retEpoch EXCEPT ![t] = 0]
    /\ UNCHANGED <<scraper_instances, scraper_lock, scraper_cache, built, epoch,
                   closed>>
    /\ initFailed' = [initFailed EXCEPT ![t] = FALSE]
    /\ setupFailed' = [setupFailed EXCEPT ![t] = FALSE]
    /\ http' = [http EXCEPT ![t] = 0]
    /\ UNCHANGED notReg

\* cleanup_scraper, app.py lines 434-445: under the lock, close every cached
\* instance and clear the dictionary.
cleanup_scraper ==
    /\ epoch < MaxCleanups
    /\ LockFree
    /\ closed' = closed \cup ({scraper_instances[c] : c \in Countries} \ {None})
    /\ scraper_instances' = [c \in Countries |-> None]
    /\ epoch' = epoch + 1
    /\ UNCHANGED <<scraper_lock, scraper_cache, pc, req, country, scraper, result,
                   built, primaryFailed, usaAttempts, retEpoch>>
    /\ UNCHANGED <<initFailed, setupFailed, http>>
    /\ UNCHANGED notReg

RegNext ==
    \/ \E t \in Threads : \E c \in Countries : Call(t, c)
    \/ \E t \in Threads : Acquire(t)
    \/ \E t \in Threads : Check(t)
    \/ \E t \in Threads : Create(t)
    \/ \E t \in Threads : CreateDefault(t)
    \/ \E t \in Threads : Result(t)
    \/ \E t \in Threads : Respond(t)
    \/ \E t \in Threads : Finish(t)
    \/ cleanup_scraper


Done(t) == pc[t] \in {"returned", "raised"}

\* C1: under every interleaving of get_scraper calls and cleanup_scraper, at
\* most one instance per country is constructed between two cleanups, every
\* instance constructed since the last cleanup is the cached one, and two
\* calls that returned in the same epoch with an instance of the same country
\* hold the same object.
C1_OneInstancePerCountry ==
    /\ \A i, j \in DOMAIN built :
          (built[i].country = built[j].country /\ built[i].epoch = built[j].epoch)
             => i = j
    /\ \A i \in DOMAIN built :
          built[i].epoch = epoch => scraper_instances[built[i].country] = i
    /\ \A t, u \in Threads :
          (pc[t] = "returned" /\ pc[u] = "returned" /\ retEpoch[t] = retEpoch[u]
             /\ built[result[t]].country = built[result[u]].country)
             => result[t] = result[u]
    /\ \A t \in Threads :
          (pc[t] = "returned" /\ retEpoch[t] = epoch)
             => result[t] = scraper_instances[built[result[t]].country]

\* Two callers asked for the same country; one constructed the instance, the
\* other got it from the cache.
C1_Witness ==
    /\ pc[1] = "returned" /\ pc[2] = "returned"
    /\ req[1] = "FRANCE" /\ req[2] = "FRANCE"
    /\ scraper[1] # None /\ scraper[2] = None
    /\ result[1] = result[2] /\ result[1] # None

\* C2: a call whose constructor attempt for the requested country gave None
\* returns the default country's instance, cached in the epoch of the return;
\* it raises only when a constructor attempt for the default was made in the
\* call and gave None too; a call never raises otherwise, and a request for
\* an unregistered name always takes the fallback.
C2_FallbackToDefault ==
    \A t \in Threads :
        /\ (pc[t] = "returned" /\ primaryFailed[t])
              => /\ built[result[t]].country = "USA"
                 /\ built[result[t]].epoch = retEpoch[t]
        /\ pc[t] = "raised"
              => primaryFailed[t] /\ usaAttempts[t] >= 1 /\ result[t] = None
        /\ (Done(t) /\ req[t] = "ATLANTIS") => primaryFailed[t]

\* A request for the unregistered name got the default instance, created in
\* that call.
C2_Witness ==
    \E t \in Threads :
        /\ pc[t] = "returned" /\ req[t] = "ATLANTIS"
        /\ scraper[t] # None /\ result[t] = scraper[t]
        /\ built[result[t]].country = "USA"


\* =========================================================================
\* Part 2. One /api/airport request: the route handler of app.py and the
\* get_airport_info session of the strategy it calls (navigation ladder,
\* extraction, record).
\* =========================================================================

\* Strategies whose navigation is modelled: BaseEAIPScraperPlaywright (and its
\* country subclasses), and the Georgia, India and Latvia Playwright scrapers.
Strategies == {"BASE", "GEORGIA", "INDIA", "LATVIA"}

\* A page text is accepted when it holds the airport code or is longer than
\* this many characters.
AcceptThreshold == 500

\* Lengths of a page text: empty, exactly the threshold, one more.
PageLens == {0, AcceptThreshold, AcceptThreshold + 1}

\* airport_code in text.upper() or len(text) > 500
Accepted(hasCode, len) == hasCode \/ len > AcceptThreshold

\* The fixed AirportRecord schema.
SchemaKeys ==
    {"airportCode", "airportName", "adAdministration", "adOperator",
     "customsAndImmigration", "ats", "operationalRemarks", "trafficTypes",
     "administrativeRemarks", "fireFightingCategory", "contacts"}

\* The keys of the dictionary each strategy's get_airport_info returns.
RecordKeys(s) ==
    CASE s = "BASE" ->
           {"airportCode", "airportName", "adAdministration", "adOperator",
            "customsAndImmigration", "ats", "operationalRemarks", "trafficTypes"}
      [] s \in {"GEORGIA", "INDIA"} ->
           {"airportCode", "airportName", "adOperator", "customsAndImmigration",
            "ats", "operationalRemarks", "trafficTypes", "administrativeRemarks",
            "fireFightingCategory"}
      [] s = "LATVIA" -> SchemaKeys

\* The record fields /api/airport overwrites from the AIP-extracted data.
AipKeys ==
    {"trafficTypes", "administrativeRemarks", "adAdministration", "adOperator",
     "customsAndImmigration", "ats", "operationalRemarks", "fireFightingCategory"}

\* The AIP-extracted data of an airport: none, one field, all mapped fields.
AipChoices == {{}, {"adOperator"}, AipKeys}

CountryInfoKeys == {"country", "region", "flag"}

\* How many direct URL conventions _open_airport tries.
NumDirect(s) == IF s = "INDIA" THEN 3 ELSE 1

NavInit ==
    /\ hpc = "idle" /\ status = 0 /\ response = {} /\ aip_data = {}
    /\ strat = "BASE" /\ npc = "idle" /\ landing = "n/a"
    /\ current_aip_url = "unset" /\ anchor = FALSE /\ hrefOk = FALSE
    /\ pageHasCode = FALSE /\ pageLen = 0 /\ attempts = <<>>
    /\ acceptedBy = "none" /\ gotoFailed = FALSE /\ directIdx = 1
    /\ extracted = FALSE /\ failedAt = "none" /\ record = {}
    /\ idleTimeouts = {}

\* An exception leaves get_airport_info (through `finally: self.close()`).
Raise == npc' = "raised" /\ failedAt' = npc

\* A navigation (click or goto) that did not raise shows some page text.
Shows(hc, ln) == pageHasCode' = hc /\ pageLen' = ln /\ gotoFailed' = FALSE

\* app.py lines 155-177: the request is validated, the country detected, the
\* strategy obtained and the AIP data looked up.  An invalid code is answered
\* 400; an exception of get_scraper is answered 500 by the outer handler.
HandlerRequest ==
    /\ hpc = "idle"
    /\ \E codeOk \in BOOLEAN, scraperOk \in BOOLEAN, s \in Strategies, a \in AipChoices :
        IF ~codeOk
        THEN /\ hpc' = "responded" /\ status' = 400 /\ response' = {"error"}
             /\ UNCHANGED <<strat, aip_data, npc>>
        ELSE IF ~scraperOk
        THEN /\ hpc' = "responded" /\ status' = 500 /\ response' = {"error"}
             /\ UNCHANGED <<strat, aip_data, npc>>
        ELSE /\ hpc' = "scrape" /\ strat' = s /\ aip_data' = a /\ npc' = "setup"
             /\ UNCHANGED <<status, response>>
    /\ UNCHANGED <<landing, current_aip_url, anchor, hrefOk, pageHasCode, pageLen,
                   attempts, acceptedBy, gotoFailed, directIdx, extracted, failedAt,
                   record>>
    /\ UNCHANGED idleTimeouts
    /\ UNCHANGED notNav

\* _setup / _setup_browser, called before the try block.
Setup ==
    /\ npc = "setup"
    /\ \E ok \in BOOLEAN :
          IF ok THEN npc' = "edition" /\ UNCHANGED failedAt ELSE Raise
    /\ UNCHANGED <<hpc, status, response, aip_data, strat, landing, current_aip_url,
                   anchor, hrefOk, pageHasCode, pageLen, attempts, acceptedBy,
                   gotoFailed, directIdx, extracted, record>>
    /\ UNCHANGED idleTimeouts
    /\ UNCHANGED notNav

\* The hard-coded edition Latvia's _get_base_url falls back to when no anchor
\* of the landing page matches.
EditionWithoutAnchor(s) == IF s = "LATVIA" THEN "default" ELSE "raise"

\* Base's _open_index guards wait_for_load_state("networkidle") with a
\* try/except that sleeps and goes on; Latvia's _open_eaip does not guard it.
NetworkIdleTimeoutSwallowedBroken(s) == FALSE
NetworkIdleTimeoutSwallowed(s) == s = "BASE"

\* Resolution of the current edition and opening of its index:
\* Georgia/India _navigate_to_current_aip, Latvia _open_eaip/_get_base_url,
\* Base _open_index (a fixed index_url, no landing page).
Edition ==
    /\ npc = "edition"
    /\ \E gotoOk \in BOOLEAN, idleOk \in BOOLEAN,
          l \in IF strat = "BASE" THEN {"n/a"} ELSE {"primary", "fallback", "none"} :
        /\ landing' = l
        /\ IF ~gotoOk
           THEN Raise /\ UNCHANGED <<current_aip_url, idleTimeouts>>
           ELSE IF l = "none" /\ EditionWithoutAnchor(strat) = "raise"
           THEN Raise /\ UNCHANGED <<current_aip_url, idleTimeouts>>
           ELSE /\ current_aip_url' =
                      IF l = "n/a" THEN "unset"
                      ELSE IF l = "none" THEN EditionWithoutAnchor(strat)
                      ELSE "resolved"
                /\ IF ~idleOk /\ strat \in {"BASE", "LATVIA"}
                   THEN /\ idleTimeouts' = idleTimeouts \cup {"edition"}
                        /\ IF NetworkIdleTimeoutSwallowed(strat)
                           THEN npc' = "locate" /\ UNCHANGED failedAt
                           ELSE Raise
                   ELSE /\ npc' = "locate"
                        /\ UNCHANGED <<failedAt, idleTimeouts>>
    /\ UNCHANGED <<hpc, status, response, aip_data, strat, anchor, hrefOk,
                   pageHasCode, pageLen, attempts, acceptedBy, gotoFailed,
                   directIdx, extracted, record>>
    /\ UNCHANGED notNav

\* The search for the airport's anchor in the navigation frame: the head of
\* _open_airport (Georgia, India), _go_to_part3_ad2 (Latvia) and
\* _navigate_to_airport (Base).
Locate ==
    /\ npc = "locate"
    /\ \E navFrame \in BOOLEAN, found \in BOOLEAN, hOk \in BOOLEAN, idleOk \in BOOLEAN :
        LET a == found /\ (navFrame \/ strat = "BASE") IN
        /\ anchor' = a
        /\ idleTimeouts' = IF strat = "BASE" /\ navFrame /\ ~idleOk
                           THEN idleTimeouts \cup {"locate"} ELSE idleTimeouts
        /\ hrefOk' = (a /\ hOk /\ strat \in {"GEORGIA", "INDIA"})
        /\ CASE strat \in {"GEORGIA", "INDIA"} ->
                  /\ npc' = IF a THEN "click" ELSE "direct"
                  /\ UNCHANGED failedAt
             [] strat = "LATVIA" ->
                  IF ~navFrame THEN Raise
                  ELSE /\ npc' = IF a THEN "click" ELSE "direct"
                       /\ UNCHANGED failedAt
             [] strat = "BASE" ->
                  IF a
                  THEN npc' = "click" /\ UNCHANGED failedAt
                  ELSE Raise
    /\ UNCHANGED <<hpc, status, response, aip_data, strat, landing, current_aip_url,
                   pageHasCode, pageLen, attempts, acceptedBy, gotoFailed,
                   directIdx, extracted, record>>
    /\ UNCHANGED notNav

\* After a click of Georgia's or India's _open_airport whose text was not
\* accepted, control leaves the try block and reaches the direct URLs.
AfterUnacceptedClick(h) == "direct"

\* Georgia's href-derived URL returns without an acceptance check; India's
\* checks the text.
HrefChecksText(s) == s = "INDIA"

\* Latvia's _open_airport_direct swallows the exception of page.goto.
DirectSwallows(s) == s = "LATVIA"

\* First rung of the ladder: click the anchor.
Click ==
    /\ npc = "click"
    /\ attempts' = Append(attempts, "click")
    /\ \E ok \in BOOLEAN, hc \in BOOLEAN, ln \in PageLens :
        IF ok
        THEN /\ Shows(hc, ln)
             /\ UNCHANGED failedAt
             /\ IF strat \in {"GEORGIA", "INDIA"}
                THEN IF Accepted(hc, ln)
                     THEN npc' = "extract" /\ acceptedBy' = "click"
                     ELSE /\ npc' = AfterUnacceptedClick(hrefOk /\ current_aip_url # "unset")
                          /\ UNCHANGED acceptedBy
                ELSE npc' = "extract" /\ UNCHANGED acceptedBy
        ELSE /\ gotoFailed' = TRUE
             /\ UNCHANGED <<pageHasCode, pageLen, acceptedBy>>
             /\ CASE strat \in {"GEORGIA", "INDIA"} ->
                       /\ npc' = IF hrefOk /\ current_aip_url # "unset"
                                 THEN "href" ELSE "direct"
                       /\ UNCHANGED failedAt
                  [] strat = "LATVIA" -> npc' = "direct" /\ UNCHANGED failedAt
                  [] strat = "BASE" -> Raise
    /\ UNCHANGED <<hpc, status, response, aip_data, strat, landing, current_aip_url,
                   anchor, hrefOk, directIdx, extracted, record>>
    /\ UNCHANGED idleTimeouts
    /\ UNCHANGED notNav

\* Second rung: the URL derived from the anchor's href (Georgia, India).
Href ==
    /\ npc = "href"
    /\ attempts' = Append(attempts, "href")
    /\ \E ok \in BOOLEAN, hc \in BOOLEAN, ln \in PageLens :
        IF ok
        THEN /\ Shows(hc, ln)
             /\ IF ~HrefChecksText(strat)
                THEN npc' = "extract" /\ UNCHANGED acceptedBy
                ELSE IF Accepted(hc, ln)
                THEN npc' = "extract" /\ acceptedBy' = "href"
                ELSE npc' = "direct" /\ UNCHANGED acceptedBy
        ELSE /\ gotoFailed' = TRUE
             /\ npc' = "direct"
             /\ UNCHANGED <<pageHasCode, pageLen, acceptedBy>>
    /\ UNCHANGED <<hpc, status, response, aip_data, strat, landing, current_aip_url,
                   anchor, hrefOk, directIdx, extracted, failedAt, record>>
    /\ UNCHANGED idleTimeouts
    /\ UNCHANGED notNav

\* `for pattern_url in patterns`: a failed pattern is followed by the next one.
NextDirectBroken(i) == i
NextDirect(i) == i + 1

\* Last rung: the direct URL conventions (one for Georgia and Latvia, three
\* for India).
Direct ==
    /\ npc = "direct"
    /\ attempts' = Append(attempts, "direct")
    /\ \E ok \in BOOLEAN, hc \in BOOLEAN, ln \in PageLens :
        IF ok /\ strat = "LATVIA"
        THEN /\ Shows(hc, ln) /\ npc' = "extract"
             /\ UNCHANGED <<acceptedBy, directIdx, failedAt>>
        ELSE IF ok /\ Accepted(hc, ln)
        THEN /\ Shows(hc, ln) /\ npc' = "extract" /\ acceptedBy' = "direct"
             /\ UNCHANGED <<directIdx, failedAt>>
        ELSE /\ IF ok THEN Shows(hc, ln)
                      ELSE gotoFailed' = TRUE /\ UNCHANGED <<pageHasCode, pageLen>>
             /\ UNCHANGED acceptedBy
             /\ IF ~ok /\ DirectSwallows(strat)
                THEN npc' = "extract" /\ UNCHANGED <<directIdx, failedAt>>
                ELSE IF directIdx < NumDirect(strat)
                THEN /\ directIdx' = NextDirect(directIdx)
                     /\ UNCHANGED <<npc, failedAt>>
                ELSE Raise /\ UNCHANGED directIdx
    /\ UNCHANGED <<hpc, status, response, aip_data, strat, landing, current_aip_url,
                   anchor, hrefOk, extracted, record>>
    /\ UNCHANGED idleTimeouts
    /\ UNCHANGED notNav

\* text = _extract_sections_text() / _content_text(), then the record is
\* built from the text.
Extract ==
    /\ npc = "extract"
    /\ \E ok \in BOOLEAN :
        IF ok
        THEN /\ extracted' = TRUE /\ record' = RecordKeys(strat)
             /\ npc' = "returned" /\ UNCHANGED failedAt
        ELSE Raise /\ UNCHANGED <<extracted, record>>
    /\ UNCHANGED <<hpc, status, response, aip_data, strat, landing, current_aip_url,
                   anchor, hrefOk, pageHasCode, pageLen, attempts, acceptedBy,
                   gotoFailed, directIdx>>
    /\ UNCHANGED idleTimeouts
    /\ UNCHANGED notNav

\* app.py lines 181-231: the scraper's record (empty when it raised) is
\* overwritten with the AIP-extracted fields, the country information and the
\* airport code are added, and the record is the 200 response.
HandlerRespond ==
    /\ hpc = "scrape"
    /\ npc \in {"returned", "raised"}
    /\ hpc' = "responded"
    /\ IF npc = "raised" /\ ~SwallowScraperFailure
       THEN status' = 500 /\ response' = {"error"}
       ELSE /\ status' = 200
            /\ \E ci \in BOOLEAN :
                 response' = (IF npc = "returned" THEN record ELSE {})
                               \cup aip_data
                               \cup (IF ci THEN CountryInfoKeys ELSE {})
                               \cup {"airportCode"}
    /\ UNCHANGED <<aip_data, strat, npc, landing, current_aip_url, anchor, hrefOk,
                   pageHasCode, pageLen, attempts, acceptedBy, gotoFailed,
                   directIdx, extracted, failedAt, record>>
    /\ UNCHANGED idleTimeouts
    /\ UNCHANGED notNav

NavNext ==
    \/ HandlerRequest
    \/ Setup
    \/ Edition
    \/ Locate
    \/ Click
    \/ Href
    \/ Direct
    \/ Extract
    \/ HandlerRespond

\* =========================================================================
\* Part 3. _parse_operational_hours and _get_field_value
\* (base_eaip_scraper.py, latvia_aip_scraper_playwright.py)
\* =========================================================================

\* A page text is a sequence of tokens, each standing for a piece of text the
\* patterns tell apart:
\*   "HDR"   'AD 2.3 OPERATIONAL HOURS'      "OPH"   'OPERATIONAL HOURS'
\*   "AD24"  'AD 2.4'                        "ADMIN" ' AD Administration'
\*   "OPER"  ' AD Operator'                  "ONEAD" '1AD'
\*   "CUST"  'Customs and immigration'       "ATS"   'ATS'
\*   "RATS"  'Reporting ATS'                 "H24", "NIL"
\*   "MAYBE" 'May be requested'
Tokens == {"HDR", "OPH", "AD24", "ADMIN", "OPER", "ONEAD", "CUST", "ATS", "RATS",
           "H24", "NIL", "MAYBE"}

MaxTextLen == 3

Texts == UNION {[1..n -> Tokens] : n \in 0..MaxTextLen}

\* The four fields, by the 'day' label of their entry.
Fields == {"AD Administration", "AD Operator", "Customs and immigration", "ATS"}

Parsers == {"BASE", "LATVIA"}

\* str.find over tokens: the first position holding a token of S, 0 for -1.
Find(seq, S) ==
    IF \E i \in DOMAIN seq : seq[i] \in S
    THEN CHOOSE i \in DOMAIN seq :
            seq[i] \in S /\ \A k \in DOMAIN seq : seq[k] \in S => i <= k
    ELSE 0

\* segment = text[start_idx:end_idx] if both were found, else the whole text.
\* 'OPERATIONAL HOURS' is searched only when the full header is absent, and
\* 'AD 2.4' is searched from the start of the text.
Segment(t) ==
    LET full == Find(t, {"HDR"})
        start_idx == IF full = 0 THEN Find(t, {"HDR", "OPH"}) ELSE full
        end_idx == IF start_idx # 0 THEN Find(t, {"AD24"}) ELSE 0
    IN IF start_idx # 0 /\ end_idx # 0 THEN SubSeq(t, start_idx, end_idx - 1) ELSE t

\* re.search(LABEL.*?(VALUE), segment, IGNORECASE | DOTALL): the position of
\* the value captured (the first value token after the first label token), 0
\* when there is no match.
Search(seg, labels, values) ==
    LET i == Find(seg, labels) IN
    IF i = 0 THEN 0
    ELSE IF \E j \in DOMAIN seg : j > i /\ seg[j] \in values
    THEN CHOOSE j \in DOMAIN seg :
            /\ j > i /\ seg[j] \in values
            /\ \A k \in DOMAIN seg : (k > i /\ seg[k] \in values) => j <= k
    ELSE 0

\* The first pattern of an ordered list that matches: its captured position.
SearchFirst(seg, patterns, values) ==
    LET hit == {n \in DOMAIN patterns : Search(seg, patterns[n], values) # 0} IN
    IF hit = {} THEN 0
    ELSE Search(seg, patterns[CHOOSE n \in hit : \A k \in hit : n <= k], values)

Entry(field, value) == [day |-> field, hours |-> value]

\* The entries appended for a field when none of its patterns matched.
MissingBroken(found, field) == <<>>
Missing(found, field) == IF found THEN <<>> ELSE <<Entry(field, "NIL")>>

HoursValues == {"H24", "NIL"}

\* "H24" if the match holds H24, else the captured group (NIL).
HoursOf(tok) == IF tok = "H24" THEN "H24" ELSE "NIL"

\* 'On request' if the captured group is 'May be requested'.
CustomsOf(tok) == IF tok = "MAYBE" THEN "On request" ELSE HoursOf(tok)

AdminPatterns == <<{"ADMIN"}>>
OperatorPatterns == <<{"OPER"}, {"ONEAD"}>>

\* BaseEAIPScraperPlaywright._parse_operational_hours
ParseBase(t) ==
    LET seg == Segment(t)
        am == SearchFirst(seg, AdminPatterns, HoursValues)
        om == SearchFirst(seg, OperatorPatterns, HoursValues)
        cm == Search(seg, {"CUST"}, HoursValues \cup {"MAYBE"})
        tm == Search(seg, {"ATS"}, HoursValues)
    IN (IF am # 0 THEN <<Entry("AD Administration", HoursOf(seg[am]))>> ELSE <<>>)
       \o (IF om # 0 THEN <<Entry("AD Operator", HoursOf(seg[om]))>> ELSE <<>>)
       \o <<Entry("Customs and immigration",
                  IF cm # 0 THEN CustomsOf(seg[cm]) ELSE "NIL")>>
       \o <<Entry("ATS", IF tm # 0 THEN HoursOf(seg[tm]) ELSE "NIL")>>
       \o Missing(am # 0, "AD Administration")
       \o Missing(om # 0, "AD Operator")

\* LatviaAIPScraperPlaywright._parse_operational_hours
ParseLatvia(t) ==
    LET seg == Segment(t)
        am == SearchFirst(seg, AdminPatterns, HoursValues)
        om == SearchFirst(seg, OperatorPatterns, HoursValues)
        cm == Search(seg, {"CUST"}, HoursValues \cup {"MAYBE"})
        tm == Search(seg, {"ATS"}, HoursValues)
    IN (IF am # 0 THEN <<Entry("AD Administration", HoursOf(seg[am]))>> ELSE <<>>)
       \o (IF om # 0 THEN <<Entry("AD Operator", HoursOf(seg[om]))>> ELSE <<>>)
       \o (IF cm # 0 THEN <<Entry("Customs and immigration", CustomsOf(seg[cm]))>>
           ELSE <<>>)
       \o (IF tm # 0 THEN <<Entry("ATS", HoursOf(seg[tm]))>> ELSE <<>>)
       \o Missing(am # 0, "AD Administration")
       \o Missing(om # 0, "AD Operator")
       \o Missing(cm # 0, "Customs and immigration")
       \o Missing(tm # 0, "ATS")

\* _get_field_value: the hours of the first entry of the field; "missing"
\* marks the fallback the code takes when no entry has that day.
get_field_value(operational_hours, field_name) ==
    LET idx == {i \in DOMAIN operational_hours : operational_hours[i].day = field_name}
    IN IF idx = {} THEN "missing"
       ELSE operational_hours[CHOOSE i \in idx : \A k \in idx : i <= k].hours

HoursInit ==
    /\ text \in Texts
    /\ parser \in Parsers
    /\ hours = <<>>
    /\ parsed = FALSE

HoursIdle ==
    /\ text = <<>> /\ parser = "BASE" /\ hours = <<>> /\ parsed = FALSE

\* hours = self._parse_operational_hours(text)
Parse ==
    /\ ~parsed
    /\ hours' = IF parser = "BASE" THEN ParseBase(text) ELSE ParseLatvia(text)
    /\ parsed' = TRUE
    /\ UNCHANGED <<text, parser>>
    /\ UNCHANGED notHours

HoursNext == Parse

\* C8: for every page text, _parse_operational_hours returns exactly one
\* entry for each of the four fields, so _get_field_value never takes its
\* missing-key fallback; a field none of whose labels occurs in the text (no
\* 'AD Administration' anywhere) is mapped to 'NIL'.
C8_EveryFieldOnce ==
    parsed =>
        /\ \A f \in Fields :
              /\ Cardinality({i \in DOMAIN hours : hours[i].day = f}) = 1
              /\ get_field_value(hours, f) \in {"H24", "NIL", "On request"}
        /\ Len(hours) = Cardinality(Fields)
        /\ (\A i \in DOMAIN text : text[i] # "ADMIN")
              => get_field_value(hours, "AD Administration") = "NIL"
        /\ (\A i \in DOMAIN text : text[i] \notin {"OPER", "ONEAD"})
              => get_field_value(hours, "AD Operator") = "NIL"
        /\ (\A i \in DOMAIN text : text[i] # "CUST")
              => get_field_value(hours, "Customs and immigration") = "NIL"
        /\ (\A i \in DOMAIN text : text[i] # "ATS")
              => get_field_value(hours, "ATS") = "NIL"

\* A text with an operator row and no 'AD Administration': the administration
\* entry is the sentinel, the operator entry the value found.
C8_Witness ==
    /\ parsed
    /\ text = <<"HDR", "OPER", "H24">>
    /\ get_field_value(hours, "AD Administration") = "NIL"
    /\ get_field_value(hours, "AD Operator") = "H24"

\* =========================================================================
\* Part 4. Browser sessions: _setup / _setup_browser, _teardown / close
\* (base_eaip_scraper.py, georgia/india/latvia/estonia_aip_scraper_playwright.py)
\* =========================================================================

NumSessions == 2

\* Concurrent requests of one country: they share the cached instance.  The
\* driver, browser and page a session creates carry the session's number.
Sessions == 1..NumSessions

\* The teardown styles: Base (_teardown: try/finally), Georgia, India and
\* Latvia (close: each step in its own try/except), Estonia (close: no try).
Kinds == {"BASE", "GEORGIA", "ESTONIA"}

SessInit ==
    /\ kind \in Kinds
    /\ inst = [playwright |-> None, browser |-> None, page |-> None]
    /\ spc = [s \in Sessions |-> "idle"]
    /\ driver = [s \in Sessions |-> "none"]
    /\ browser = [s \in Sessions |-> "none"]
    /\ browserDriver = [s \in Sessions |-> None]
    /\ closedBy = [s \in Sessions |-> None]
    /\ pageBrowser = [s \in Sessions |-> None]
    /\ ran = [s \in Sessions |-> {}]
    /\ exc = [s \in Sessions |-> FALSE]

SessIdle == SessInit /\ kind = "BASE"

\* self.playwright = sync_playwright().start()   (before the try block)
StartDriver(s) ==
    /\ spc[s] = "idle"
    /\ \E ok \in BOOLEAN :
        IF ok
        THEN /\ driver' = [driver EXCEPT ![s] = "running"]
             /\ inst' = [inst EXCEPT !.playwright = s]
             /\ spc' = [spc EXCEPT ![s] = "launch"]
        ELSE /\ spc' = [spc EXCEPT ![s] = "raised"]
             /\ UNCHANGED <<driver, inst>>
    /\ UNCHANGED <<kind, browser, browserDriver, closedBy, pageBrowser, ran, exc>>
    /\ UNCHANGED notSess

\* self.browser = self.playwright.chromium.launch(...)   (before the try
\* block: an exception leaves get_airport_info without teardown)
Launch(s) ==
    /\ spc[s] = "launch"
    /\ \E ok \in BOOLEAN :
        IF ok /\ driver[inst.playwright] = "running"
        THEN /\ browser' = [browser EXCEPT ![s] = "open"]
             /\ browserDriver' = [browserDriver EXCEPT ![s] = inst.playwright]
             /\ inst' = [inst EXCEPT !.browser = s]
             /\ spc' = [spc EXCEPT ![s] = "newpage"]
        ELSE /\ spc' = [spc EXCEPT ![s] = "raised"]
             /\ UNCHANGED <<browser, browserDriver, inst>>
    /\ UNCHANGED <<kind, driver, closedBy, pageBrowser, ran, exc>>
    /\ UNCHANGED notSess

\* self.page = self.browser.new_page()   (before the try block)
NewPage(s) ==
    /\ spc[s] = "newpage"
    /\ \E ok \in BOOLEAN :
        IF ok /\ browser[inst.browser] = "open"
        THEN /\ pageBrowser' = [pageBrowser EXCEPT ![s] = inst.browser]
             /\ inst' = [inst EXCEPT !.page = s]
             /\ spc' = [spc EXCEPT ![s] = "work"]
        ELSE /\ spc' = [spc EXCEPT ![s] = "raised"]
             /\ UNCHANGED <<pageBrowser, inst>>
    /\ UNCHANGED <<kind, driver, browser, browserDriver, closedBy, ran, exc>>
    /\ UNCHANGED notSess

\* The body of the try block: navigation and extraction through self.page.
\* An operation on a page whose browser is gone raises; control reaches the
\* finally block either way.
PageOp(s) ==
    /\ spc[s] = "work"
    /\ ran' = [ran EXCEPT ![s] = @ \cup {inst.page}]
    /\ \E ok \in BOOLEAN :
        exc' = [exc EXCEPT ![s] = ~(ok /\ browser[pageBrowser[inst.page]] = "open")]
    /\ spc' = [spc EXCEPT ![s] = "close"]
    /\ UNCHANGED <<kind, inst, driver, browser, browserDriver, closedBy, pageBrowser>>
    /\ UNCHANGED notSess

\* Estonia's close has no try: an exception of browser.close() skips
\* playwright.stop().
CloseFailureSkipsStop(k) == k = "ESTONIA"

\* if self.browser: self.browser.close()
CloseBrowser(s) ==
    /\ spc[s] = "close"
    /\ \E ok \in BOOLEAN :
        IF ok
        THEN /\ browser' = [browser EXCEPT ![inst.browser] = "closed"]
             /\ closedBy' = IF browser[inst.browser] = "open"
                            THEN [closedBy EXCEPT ![inst.browser] = s]
                            ELSE closedBy
             /\ spc' = [spc EXCEPT ![s] = "stop"]
             /\ UNCHANGED exc
        ELSE /\ UNCHANGED <<browser, closedBy>>
             /\ IF CloseFailureSkipsStop(kind)
                THEN spc' = [spc EXCEPT ![s] = "raised"] /\ UNCHANGED exc
                ELSE /\ spc' = [spc EXCEPT ![s] = "stop"]
                     /\ exc' = IF kind = "BASE" THEN [exc EXCEPT ![s] = TRUE] ELSE exc
    /\ UNCHANGED <<kind, inst, driver, browserDriver, pageBrowser, ran>>
    /\ UNCHANGED notSess

\* if self.playwright: self.playwright.stop()
\* Stopping a driver ends the browsers launched on it.
StopDriver(s) ==
    /\ spc[s] = "stop"
    /\ LET d == inst.playwright
           ended == {b \in Sessions : browserDriver[b] = d /\ browser[b] = "open"}
       IN /\ driver' = [driver EXCEPT ![d] = "stopped"]
          /\ browser' = [b \in Sessions |-> IF b \in ended THEN "closed" ELSE browser[b]]
          /\ closedBy' = [b \in Sessions |-> IF b \in ended THEN s ELSE closedBy[b]]
    /\ spc' = [spc EXCEPT ![s] = IF exc[s] THEN "raised" ELSE "returned"]
    /\ UNCHANGED <<kind, inst, browserDriver, pageBrowser, ran, exc>>
    /\ UNCHANGED notSess

SessNext ==
    \E s \in Sessions :
        \/ StartDriver(s)
        \/ Launch(s)
        \/ NewPage(s)
        \/ PageOp(s)
        \/ CloseBrowser(s)
        \/ StopDriver(s)

\* C9: when a call of get_airport_info that runs alone has returned or
\* raised, the Playwright driver and the browser it started are stopped and
\* closed, whatever step failed.
C9_AllStopped ==
    \A s \in Sessions :
        (spc[s] \in {"returned", "raised"} /\ \A t \in Sessions \ {s} : spc[t] = "idle")
            => driver[s] # "running" /\ browser[s] # "open"

\* C10: concurrent sessions on the cached instance own independent handles:
\* between its setup and its teardown a session finds its own driver, browser
\* and page in the instance, its page operations run on its own page, and a
\* browser is ended only by the session that launched it.
C10_IndependentHandles ==
    \A s \in Sessions :
        /\ spc[s] \in {"launch", "newpage", "work", "close", "stop"}
              => inst.playwright = s
        /\ spc[s] \in {"newpage", "work", "close"} => inst.browser = s
        /\ spc[s] \in {"work"} => inst.page = s
        /\ ran[s] \subseteq {s}
        /\ closedBy[s] \in {None, s}

Tries(r) == Cardinality({i \in DOMAIN attempts : attempts[i] = r})

\* C13: every get_airport_info call terminates, given that each page
\* operation returns or times out: click and href are attempted at most once,
\* each direct URL convention at most once, and a call that started returns a
\* record or raises.
C13_Terminates ==
    /\ [](/\ Tries("click") <= 1 /\ Tries("href") <= 1
          /\ Tries("direct") <= NumDirect(strat)
          /\ directIdx <= NumDirect(strat))
    /\ (npc = "setup" ~> npc \in {"returned", "raised"})

\* An India session that attempted every rung, the last one three times, and
\* then raised.
C13_Witness ==
    /\ strat = "INDIA" /\ npc = "raised" /\ failedAt = "direct"
    /\ attempts = <<"click", "href", "direct", "direct", "direct">>

\* =========================================================================
\* Part 5. Country resolution: country_detector.get_country_from_code,
\* scraper_registry.get_country_from_code and the lookups of /api/airport
\* =========================================================================

MaxCodeLen == 4

\* Characters of a submitted code: upper-case and lower-case letters.
Chars == {"K", "L", "F", "Z", "B", "l", "f"}

Codes == UNION {[1..n -> Chars] : n \in 0..MaxCodeLen}

\* str.upper, character by character.
UpperChar(ch) == CASE ch = "l" -> "L" [] ch = "f" -> "F" [] OTHER -> ch

Upper(c) == [i \in DOMAIN c |-> UpperChar(c[i])]

\* c[:n]: the first n characters, the whole string when it is shorter.
Take(c, n) == SubSeq(c, 1, IF n < Len(c) THEN n ELSE Len(c))

\* Entries of country_detector.STANDARD_PREFIXES over these letters, with the
\* value the dictionary holds for each key (the last one written).
STANDARD_PREFIXES ==
    (<<"K">> :> "United States of America") @@ (<<"L">> :> "Spain")
    @@ (<<"L", "F">> :> "France") @@ (<<"L", "Z">> :> "Slovakia")
    @@ (<<"L", "Z", "B", "B">> :> "Bulgaria") @@ (<<"L", "K">> :> "Czech Republic")
    @@ (<<"L", "L">> :> "Israel") @@ (<<"B", "K">> :> "Kosovo")
    @@ (<<"F">> :> "South Africa") @@ (<<"F", "B">> :> "Botswana")
    @@ (<<"F", "K">> :> "Cameroon") @@ (<<"F", "L">> :> "Zambia")
    @@ (<<"F", "Z">> :> "Democratic Republic of the Congo")

\* Entries of scraper_registry.AIRPORT_CODE_PREFIXES over these letters:
\* prefix -> country name.
REGISTRY_PREFIXES ==
    (<<"K">> :> "USA") @@ (<<"L", "F">> :> "FRANCE")
    @@ (<<"L", "L">> :> "ISRAEL") @@ (<<"B", "K">> :> "KOSOVO")

NoCountry == "None"

\* for prefix_len in lens: the value of the first prefix found in the table.
\* guarded: the loop skips a length the code does not reach.
RECURSIVE FirstHit(_, _, _, _)
FirstHit(c, lens, table, guarded) ==
    IF lens = <<>> THEN NoCountry
    ELSE IF (~guarded \/ Len(c) >= Head(lens)) /\ Take(c, Head(lens)) \in DOMAIN table
    THEN table[Take(c, Head(lens))]
    ELSE FirstHit(c, Tail(lens), table, guarded)

\* country_detector.get_country_from_code: the 'country' of the result.
detector_country(airport_code) ==
    LET c == Upper(airport_code) IN
    IF Len(c) < 3 THEN NoCountry
    ELSE FirstHit(c, <<3, 2, 1>>, STANDARD_PREFIXES, TRUE)

\* scraper_registry.get_country_from_code
registry_country(airport_code) ==
    FirstHit(Upper(airport_code), <<2, 1>>, REGISTRY_PREFIXES, FALSE)

\* app.py detect_country: the registry's country, 'USA' when it has none.
detect_country(airport_code) ==
    IF registry_country(airport_code) = NoCountry THEN "USA"
    ELSE registry_country(airport_code)

\* airport_code = data['airportCode'].strip().upper()
HandlerNormalizeBroken(c) == c
HandlerNormalize(c) == Upper(c)

\* The lookups of /api/airport for a submitted code: the country whose
\* strategy get_scraper is asked for, the key of the AIP-data lookup, the
\* country information, the code handed to the strategy (which puts its
\* upper-case form in the record) and the airportCode the handler adds when
\* the record has none.
Lookup(c) ==
    LET airport_code == HandlerNormalize(c) IN
    IF Len(airport_code) < 3 THEN [status |-> 400]
    ELSE [status |-> 200,
          country |-> detect_country(airport_code),
          aipKey |-> Upper(airport_code),
          info |-> detector_country(airport_code),
          recordCode |-> Upper(airport_code),
          airportCode |-> airport_code]

ResInit ==
    /\ code \in Codes
    /\ det = NoCountry /\ reg = NoCountry /\ out = [status |-> 0]
    /\ resolved = FALSE

ResIdle == ResInit /\ code = <<>>

Resolve ==
    /\ ~resolved
    /\ det' = detector_country(code)
    /\ reg' = registry_country(code)
    /\ out' = Lookup(code)
    /\ resolved' = TRUE
    /\ UNCHANGED code
    /\ UNCHANGED notRes

ResNext == Resolve

IsPrefix(k, c) == Len(k) <= Len(c) /\ SubSeq(c, 1, Len(k)) = k

\* The keys of a table that are prefixes of the upper-cased code.
Matching(table, c) == {k \in DOMAIN table : IsPrefix(k, Upper(c))}

Longest(keys) == CHOOSE k \in keys : \A j \in keys : Len(j) <= Len(k)

\* C14: when two keys of different lengths are both prefixes of the code, the
\* country of the longest matching key is returned.
C14_LongestMatch ==
    (resolved /\ Len(code) >= 3) =>
        /\ (\E k, j \in Matching(STANDARD_PREFIXES, code) : Len(k) # Len(j))
              => det = STANDARD_PREFIXES[Longest(Matching(STANDARD_PREFIXES, code))]
        /\ (\E k, j \in Matching(REGISTRY_PREFIXES, code) : Len(k) # Len(j))
              => reg = REGISTRY_PREFIXES[Longest(Matching(REGISTRY_PREFIXES, code))]

\* C15: a code of fewer than 3 characters has no country, in either resolver.
C15_ShortCodeNone ==
    (resolved /\ Len(code) < 3) => det = NoCountry /\ reg = NoCountry

\* The name scraper_registry gives the country country_detector names.
StrategyName(name) ==
    CASE name = "United States of America" -> "USA"
      [] name = "France" -> "FRANCE"
      [] name = "Israel" -> "ISRAEL"
      [] name = "Kosovo" -> "KOSOVO"
      [] name = "Spain" -> "SPAIN"
      [] name = "Slovakia" -> "SLOVAKIA"
      [] name = "Bulgaria" -> "BULGARIA"
      [] name = "Czech Republic" -> "CZECH_REPUBLIC"
      [] name = "South Africa" -> "SOUTH_AFRICA"
      [] name = "Botswana" -> "BOTSWANA"
      [] name = "Cameroon" -> "CAMEROON"
      [] name = "Zambia" -> "ZAMBIA"
      [] name = "Democratic Republic of the Congo" -> "DEMOCRATIC_REPUBLIC_OF_THE_CONGO"
      [] OTHER -> NoCountry

\* C25: the country a response is labelled with (country_detector) is the
\* country whose strategy get_scraper was asked for (scraper_registry through
\* detect_country): no response is labelled with one country while its record
\* comes from another country's, or the default USA, scraper.
C25_LabelMatchesStrategy ==
    (resolved /\ out.status = 200 /\ out.info # NoCountry) =>
        out.country = StrategyName(out.info)

\* =========================================================================
\* Part 6. country_detector: load_countries_data and concurrent callers
\* =========================================================================

NumCallers == 2

Callers == 1..NumCallers

\* Codes the calls of a run are made with: two keys match, lower case, a
\* four-letter key, no key, a short code.
QueryCodes ==
    {<<"L", "F", "K", "K">>, <<"l", "f", "K", "K">>, <<"L", "Z", "B", "B">>,
     <<"Z", "Z", "Z">>, <<"K">>}

DetInit ==
    /\ countries_data = "None"
    /\ query \in QueryCodes
    /\ inJson \in BOOLEAN
    /\ dpc = [k \in Callers |-> "idle"]
    /\ dlocal = [k \in Callers |-> "None"]
    /\ didLoad = [k \in Callers |-> FALSE]
    /\ returned = {}

DetIdle == DetInit /\ query = <<"K">> /\ inJson = FALSE

\* The result when the country is not found in the JSON data: the basic
\* information, with the table's country name.
BasicInfoBroken(country_name) == NoCountry
BasicInfo(country_name) == country_name

\* The result of the prefix loop given the local countries_data: the country
\* (named by the table; the JSON entry is the one whose upper-cased name is
\* equal) and whether the details come from the JSON entry.
Result_(q, data) ==
    LET country_name == detector_country(q) IN
    IF country_name = NoCountry THEN [country |-> NoCountry, detailed |-> FALSE]
    ELSE IF data = "data" /\ inJson
    THEN [country |-> country_name, detailed |-> TRUE]
    ELSE [country |-> BasicInfo(country_name), detailed |-> FALSE]

\* get_country_from_code is entered; a code of fewer than 3 characters
\* returns None at once.
DCall(k) ==
    /\ dpc[k] = "idle"
    /\ IF Len(Upper(query)) < 3
       THEN /\ returned' = returned \cup
                   {[country |-> NoCountry, detailed |-> FALSE, lazy |-> FALSE]}
            /\ UNCHANGED dpc
       ELSE /\ dpc' = [dpc EXCEPT ![k] = "check"]
            /\ UNCHANGED returned
    /\ UNCHANGED <<countries_data, query, inJson, dlocal, didLoad>>
    /\ UNCHANGED notDet

\* load_countries_data: if _countries_data is None
DCheck(k) ==
    /\ dpc[k] = "check"
    /\ dpc' = [dpc EXCEPT ![k] = IF countries_data = "None" THEN "load" ELSE "ret"]
    /\ didLoad' = [didLoad EXCEPT ![k] = countries_data = "None"]
    /\ UNCHANGED <<countries_data, query, inJson, dlocal, returned>>
    /\ UNCHANGED notDet

\* The file is read and _countries_data assigned: the parsed list, or [] when
\* reading raised.
DLoad(k) ==
    /\ dpc[k] = "load"
    /\ \E ok \in BOOLEAN : countries_data' = IF ok THEN "data" ELSE "empty"
    /\ dpc' = [dpc EXCEPT ![k] = "ret"]
    /\ UNCHANGED <<query, inJson, dlocal, didLoad, returned>>
    /\ UNCHANGED notDet

\* countries_data = load_countries_data()   (return _countries_data)
DReturn(k) ==
    /\ dpc[k] = "ret"
    /\ dlocal' = [dlocal EXCEPT ![k] = countries_data]
    /\ dpc' = [dpc EXCEPT ![k] = "lookup"]
    /\ UNCHANGED <<countries_data, query, inJson, didLoad, returned>>
    /\ UNCHANGED notDet

\* The prefix loop and the return of the result.
DLookup(k) ==
    /\ dpc[k] = "lookup"
    /\ returned' = returned \cup
          {[country |-> Result_(query, dlocal[k]).country,
            detailed |-> Result_(query, dlocal[k]).detailed,
            lazy |-> didLoad[k]]}
    /\ dpc' = [dpc EXCEPT ![k] = "idle"]
    /\ dlocal' = [dlocal EXCEPT ![k] = "None"]
    /\ didLoad' = [didLoad EXCEPT ![k] = FALSE]
    /\ UNCHANGED <<countries_data, query, inJson>>
    /\ UNCHANGED notDet

DetNext ==
    \E k \in Callers :
        \/ DCall(k)
        \/ DCheck(k)
        \/ DLoad(k)
        \/ DReturn(k)
        \/ DLookup(k)

C17_CaseInsensitive ==
    resolved =>
        /\ out = Lookup(Upper(code))
        /\ det = detector_country(Upper(code))
        /\ reg = registry_country(Upper(code))
        /\ out.status = 200 =>
              /\ out.aipKey = Upper(code) /\ out.airportCode = Upper(code)
              /\ out.recordCode = Upper(code)
              /\ out.country = detect_country(Upper(code))

\* A lower-case code of a registered country was resolved to that country.
C17_Witness ==
    /\ resolved /\ code = <<"l", "f", "K", "l">>
    /\ out.status = 200 /\ out.country = "FRANCE" /\ out.info = "France"
    /\ out.airportCode = <<"L", "F", "K", "L">>

\* C18: the segment _parse_operational_hours searches never holds the header
\* of the next section ('AD 2.4'), whatever the text: with or without the
\* operational-hours header, with 'AD 2.4' before or after it.
C18_SegmentExcludesNextHeader ==
    parsed => \A i \in DOMAIN Segment(text) : Segment(text)[i] # "AD24"

\* =========================================================================
\* Part 7. Section bounds by offset: _parse_operational_hours and
\* _extract_traffic_types of base_eaip_scraper.py
\* =========================================================================

\* end_idx = start_idx + 2000 when no next header follows.
SectionBudget == 2000

Lengths == {0, 1000, 3000, 5000}
Offsets == {0, 500, 2500, 4500}

Extractors == {"hours", "traffic"}

NotFound == -1

\* No section was cut.
NoSection == [from |-> NotFound, to |-> NotFound]

WholeText(n) == [from |-> 0, to |-> n]

Smaller(a, b) == IF a < b THEN a ELSE b

\* text[s:e] for 0 <= s: both ends clipped to the text, empty when e <= s.
Slice(n, s, e) ==
    LET f == Smaller(s, n)
        t == Smaller(e, n)
    IN [from |-> f, to |-> IF t < f THEN f ELSE t]

\* upper.find(header, from_): the first occurrence at or after from_.
FindFrom(positions, from_) ==
    LET later == {q \in positions : q >= from_} IN
    IF later = {} THEN NotFound
    ELSE CHOOSE q \in later : \A r \in later : q <= r

\* _parse_operational_hours: 'AD 2.4' is searched from the start of the text
\* and there is no budget; the whole text is the segment unless both are found.
HoursSegment(n, start_idx, nexts) ==
    LET end_idx == IF start_idx # NotFound THEN FindFrom(nexts, 0) ELSE NotFound
    IN IF start_idx # NotFound /\ end_idx # NotFound
       THEN Slice(n, start_idx, end_idx)
       ELSE WholeText(n)

\* The end of the section when no next header follows the start.
BudgetEnd(n, start_idx) == start_idx + SectionBudget

\* _extract_traffic_types: 'AD 2.3' is searched from the section start, the
\* budget bounds the section otherwise; without the header nothing is searched.
TrafficSegment(n, start_idx, nexts) ==
    IF start_idx = NotFound THEN NoSection
    ELSE LET found == FindFrom(nexts, start_idx)
             end_idx == IF found = NotFound THEN BudgetEnd(n, start_idx) ELSE found
         IN Slice(n, start_idx, end_idx)

SecInit ==
    /\ tlen \in Lengths
    /\ headerAt \in {NotFound} \cup {q \in Offsets : q < tlen}
    /\ nextAt \in SUBSET {q \in Offsets : q < tlen /\ q # headerAt}
    /\ extractor \in Extractors
    /\ section = NoSection
    /\ cut = FALSE

SecIdle ==
    /\ tlen = 0 /\ headerAt = NotFound /\ nextAt = {} /\ extractor = "hours"
    /\ section = NoSection /\ cut = FALSE

Cut ==
    /\ ~cut
    /\ section' = IF extractor = "hours" THEN HoursSegment(tlen, headerAt, nextAt)
              ELSE TrafficSegment(tlen, headerAt, nextAt)
    /\ cut' = TRUE
    /\ UNCHANGED <<tlen, headerAt, nextAt, extractor>>
    /\ UNCHANGED notSec

SecNext == Cut

\* The header is found and no next header follows it.
NoNextHeader == headerAt # NotFound /\ FindFrom(nextAt, headerAt) = NotFound

\* C19: when the section header is found and no next header follows it, the
\* segment starts at the header and ends within the budget: it never extends
\* beyond start + budget (so it is the whole text only when the text fits).
C19_BudgetBounded ==
    (cut /\ NoNextHeader) =>
        /\ section # NoSection
        /\ section.from = headerAt
        /\ section.to <= headerAt + SectionBudget

\* =========================================================================
\* Part 8. Time ranges in the operational-hours table:
\* _parse_operational_hours of georgia_aip_scraper_playwright.py and of
\* base_eaip_scraper.py
\* =========================================================================

\* A token of the table: a label or a value of Part 3, the day prefix
\* 'MON-FRI:' ("DAYS"), 'On request' ("ONREQ"), or a time range with the two
\* times as written.
Tok(k) == [kind |-> k, from |-> <<>>, to |-> <<>>]
Range(f, t) == [kind |-> "RANGE", from |-> f, to |-> t]

\* [:.]? : a time is two digit pairs with an optional ':' or '.' between them.
Separators == {"", ":", "."}
HourDigits == {"07", "19"}
MinuteDigits == {"00"}

Written(hh, sep, mm) == IF sep = "" THEN <<hh, mm>> ELSE <<hh, sep, mm>>

Times == {Written(hh, sep, mm) : hh \in HourDigits, sep \in Separators, mm \in MinuteDigits}

Ranges == {Range(f, t) : f \in Times, t \in Times}

\* HH:MM, whatever the separator written.
Canonical(time) == <<time[1], ":", time[Len(time)]>>

CanonicalRange(r) == Canonical(r.from) \o <<"-">> \o Canonical(r.to)

\* str.replace(a, b)
Replace(str, a, b) == [i \in DOMAIN str |-> IF str[i] = a THEN b ELSE str[i]]

H24Value == <<"H24">>
NILValue == <<"NIL">>
OnRequestValue == <<"On request">>

HoursTokens == {Tok("H24"), Tok("NIL")}

\* The fixture: 'AD 2.3 OPERATIONAL HOURS ... AD Operator MON-FRI: <op> ...
\* Customs and immigration <cu> ... ATS <at> ... AD 2.4', each row with one
\* value or none.
Fixture(op, cu, at) ==
    <<Tok("HDR"), Tok("OPER"), Tok("DAYS")>> \o op
    \o <<Tok("CUST")>> \o cu \o <<Tok("ATS")>> \o at \o <<Tok("AD24")>>

Row(values) == {<<>>} \cup {<<v>> : v \in values}

Fixtures ==
    {Fixture(op, cu, at) :
        op \in Row(HoursTokens \cup Ranges),
        cu \in Row(HoursTokens \cup {Tok("MAYBE"), Tok("ONREQ")}),
        at \in Row(HoursTokens)}

FixtureParsers == {"GEORGIA", "BASE"}

\* segment = text[start_idx:end_idx] if both were found, else the whole text.
FixtureSegment(t) ==
    LET full == Find(t, {Tok("HDR")})
        start_idx == IF full = 0 THEN Find(t, {Tok("HDR"), Tok("OPH")}) ELSE full
        end_idx == IF start_idx # 0 THEN Find(t, {Tok("AD24")}) ELSE 0
    IN IF start_idx # 0 /\ end_idx # 0 THEN SubSeq(t, start_idx, end_idx - 1) ELSE t

\* "H24" if the match holds H24, else "NIL".
HoursValue(tok) == IF tok.kind = "H24" THEN H24Value ELSE NILValue

\* group(2) and group(3) with '.' replaced by ':', joined by '-'.
RangeValue(tok) ==
    Replace(tok.from, ".", ":") \o <<"-">> \o Replace(tok.to, ".", ":")

\* GeorgiaAIPScraperPlaywright._parse_operational_hours
ParseGeorgia(t) ==
    LET seg == FixtureSegment(t)
        am == Search(seg, {Tok("ADMIN")}, HoursTokens)
        om == Search(seg, {Tok("OPER")}, HoursTokens \cup Ranges)
        cm == Search(seg, {Tok("CUST")}, HoursTokens \cup {Tok("ONREQ"), Tok("MAYBE")})
        tm == Search(seg, {Tok("ATS")}, HoursTokens)
    IN [adAdministration |-> IF am # 0 THEN HoursValue(seg[am]) ELSE NILValue,
        adOperator |-> IF om = 0 THEN NILValue
                       ELSE IF seg[om].kind = "RANGE" THEN RangeValue(seg[om])
                       ELSE HoursValue(seg[om]),
        customsAndImmigration |->
            IF cm = 0 THEN NILValue
            ELSE IF seg[cm].kind \in {"ONREQ", "MAYBE"} THEN OnRequestValue
            ELSE HoursValue(seg[cm]),
        ats |-> IF tm # 0 THEN HoursValue(seg[tm]) ELSE NILValue]

\* BaseEAIPScraperPlaywright._parse_operational_hours, then _get_field_value
\* of each field.
ParseBaseFixture(t) ==
    LET seg == FixtureSegment(t)
        am == SearchFirst(seg, <<{Tok("ADMIN")}>>, HoursTokens)
        om == SearchFirst(seg, <<{Tok("OPER")}, {Tok("ONEAD")}>>, HoursTokens)
        cm == Search(seg, {Tok("CUST")}, HoursTokens \cup {Tok("MAYBE")})
        tm == Search(seg, {Tok("ATS")}, HoursTokens)
        entries ==
           (IF am # 0 THEN <<Entry("AD Administration", HoursValue(seg[am]))>> ELSE <<>>)
           \o (IF om # 0 THEN <<Entry("AD Operator", HoursValue(seg[om]))>> ELSE <<>>)
           \o <<Entry("Customs and immigration",
                      IF cm = 0 THEN NILValue
                      ELSE IF seg[cm].kind = "MAYBE" THEN OnRequestValue
                      ELSE HoursValue(seg[cm]))>>
           \o <<Entry("ATS", IF tm # 0 THEN HoursValue(seg[tm]) ELSE NILValue)>>
           \o (IF am # 0 THEN <<>> ELSE <<Entry("AD Administration", NILValue)>>)
           \o (IF om # 0 THEN <<>> ELSE <<Entry("AD Operator", NILValue)>>)
    IN [adAdministration |-> get_field_value(entries, "AD Administration"),
        adOperator |-> get_field_value(entries, "AD Operator"),
        customsAndImmigration |-> get_field_value(entries, "Customs and immigration"),
        ats |-> get_field_value(entries, "ATS")]

NoResult ==
    [adAdministration |-> <<>>, adOperator |-> <<>>,
     customsAndImmigration |-> <<>>, ats |-> <<>>]

FixInit ==
    /\ fixture \in Fixtures
    /\ fparser \in FixtureParsers
    /\ fresult = NoResult
    /\ fdone = FALSE

FixIdle ==
    /\ fixture = <<>> /\ fparser = "GEORGIA" /\ fresult = NoResult /\ fdone = FALSE

\* operational_hours = self._parse_operational_hours(text)
ParseFixture ==
    /\ ~fdone
    /\ fresult' = IF fparser = "GEORGIA" THEN ParseGeorgia(fixture)
                  ELSE ParseBaseFixture(fixture)
    /\ fdone' = TRUE
    /\ UNCHANGED <<fixture, fparser>>
    /\ UNCHANGED notFix

FixNext == ParseFixture

\* The value written in the row of a label: the token right after the label
\* (after the day prefix in the operator row).
Holds(t, label, value) ==
    \E i \in DOMAIN t :
        /\ t[i] = Tok(label)
        /\ \/ i + 1 \in DOMAIN t /\ t[i + 1] = value
           \/ i + 2 \in DOMAIN t /\ t[i + 1] = Tok("DAYS") /\ t[i + 2] = value

\* C20: a time range written HH:MM-HH:MM or HHMM-HHMM in the operator row is
\* reported as HH:MM-HH:MM, and an H24 written in the customs row and in the
\* ATS row is reported for that field: the fixture with 'MON-FRI: 0700-1900',
\* customs H24 and ATS H24 gives '07:00-19:00', 'H24' and 'H24'.
C20_TimeRangeCanonical ==
    fdone =>
        /\ \A r \in Ranges :
              Holds(fixture, "OPER", r) => fresult.adOperator = CanonicalRange(r)
        /\ Holds(fixture, "CUST", Tok("H24")) => fresult.customsAndImmigration = H24Value
        /\ Holds(fixture, "ATS", Tok("H24")) => fresult.ats = H24Value

\* The tokens of the row of a label: from the label to the next label.
RowLabels == {Tok("ADMIN"), Tok("OPER"), Tok("CUST"), Tok("ATS"), Tok("AD24")}

OwnRow(t, label) ==
    {t[j] : j \in {j \in DOMAIN t :
                    \E i \in DOMAIN t :
                        /\ t[i] = Tok(label) /\ i < j
                        /\ \A m \in (i + 1)..j : t[m] \notin RowLabels}}

\* C30: the value reported for a field comes from the field's own row: H24
\* is reported for the operator, for customs and for ATS only when the row
\* of that label holds an H24; the H24 of a later row is never reported for
\* an earlier field.
C30_ValueFromOwnRow ==
    fdone =>
        /\ fresult.adOperator = H24Value => Tok("H24") \in OwnRow(fixture, "OPER")
        /\ fresult.customsAndImmigration = H24Value
              => Tok("H24") \in OwnRow(fixture, "CUST")
        /\ fresult.ats = H24Value => Tok("H24") \in OwnRow(fixture, "ATS")

\* =========================================================================
\* Part 9. Value normalization of one row of the operational-hours table:
\* _parse_operational_hours of base_eaip_scraper.py,
\* georgia_aip_scraper_playwright.py, estonia_aip_scraper_playwright.py and
\* eurocontrol_generic_scraper.py
\* =========================================================================

\* A value is a sequence of pieces: single characters for the keyword forms,
\* digit pairs and separators for the times, one piece for a phrase.
LitH24 == <<"H", "2", "4">>
LitHs24 == <<"H", " ", "2", "4">>
Lit24H == <<"2", "4", "H">>
Lit24HR == <<"2", "4", "H", "R">>
Lit24sHR == <<"2", "4", " ", "H", "R">>
LitNIL == <<"N", "I", "L">>
LitMaybe == <<"May be requested">>
LitOnRequest == <<"On request">>
LitNotAvailable == <<"Hours information not available">>

\* The keyword forms of a round-the-clock service.
KeywordForms == {LitH24, Lit24H, Lit24sHR}

\* [-] or an en dash ("endash").
Dashes == {"-", "endash"}

\* Two times as written, joined by a dash.
RawRanges == {f \o <<d>> \o t : f \in Times, d \in Dashes, t \in Times}

RawValues ==
    KeywordForms \cup {Lit24HR, LitHs24, LitNIL, LitMaybe, LitOnRequest} \cup RawRanges

\* The literal lit occurs in str at position i.
MatchAt(str, i, lit) ==
    /\ i >= 1 /\ i + Len(lit) - 1 <= Len(str)
    /\ SubSeq(str, i, i + Len(lit) - 1) = lit

\* 'lit' in str
Contains(str, lit) == \E i \in 1..Len(str) : MatchAt(str, i, lit)

\* re.search of an alternation of literals: the leftmost position where an
\* alternative matches, and there the first alternative in order; <<>> when
\* none matches.
Leftmost(str, alts) ==
    LET hits == {i \in 1..Len(str) : \E n \in DOMAIN alts : MatchAt(str, i, alts[n])}
    IN IF hits = {} THEN <<>>
       ELSE LET p == CHOOSE i \in hits : \A k \in hits : i <= k
                ns == {n \in DOMAIN alts : MatchAt(str, p, alts[n])}
            IN alts[CHOOSE n \in ns : \A k \in ns : n <= k]

\* The same alternation between word boundaries (\b ... \b).
NonWord == {" ", ":", ".", "-", "endash"}

WordMatch(str, alts) ==
    \E i \in 1..Len(str) : \E n \in DOMAIN alts :
        /\ MatchAt(str, i, alts[n])
        /\ i = 1 \/ str[i - 1] \in NonWord
        /\ i + Len(alts[n]) > Len(str) \/ str[i + Len(alts[n])] \in NonWord

\* (\d{2}[:.]?\d{2})\s*[-]\s*(\d{2}[:.]?\d{2}): the two times of the first
\* range of str, <<>> when there is none.
RangeIn(str) ==
    LET hits == {r \in Ranges :
                    \E d \in Dashes : Contains(str, r.from \o <<d>> \o r.to)}
    IN IF hits = {} THEN <<>> ELSE <<CHOOSE r \in hits : TRUE>>

\* (\d{3,4})\s*[-]\s*(\d{3,4}): the range as written, when both of its times
\* are written without a separator.
PlainRangeIn(str) ==
    LET hits == {v \in RawRanges :
                    /\ Contains(str, v)
                    /\ \A i \in DOMAIN v : v[i] \notin {":", "."}}
    IN IF hits = {} THEN <<>> ELSE CHOOSE v \in hits : TRUE

\* hours = "H24" if 'H24' in m.group(0).upper() else m.group(1)
KeywordValue(m) == IF Contains(m, LitH24) THEN LitH24 ELSE LitNIL

\* BaseEAIPScraperPlaywright._parse_operational_hours on a text holding the
\* row of one field: the entries in the order they are appended.
BaseRow(label, value) ==
    LET m == Leftmost(value, <<LitH24, LitNIL>>)
        cm == Leftmost(value, <<LitH24, LitNIL, LitMaybe>>)
        own(f) == label = f /\ m # <<>>
    IN (IF own("AD Administration")
        THEN <<Entry("AD Administration", KeywordValue(m))>> ELSE <<>>)
       \o (IF own("AD Operator")
           THEN <<Entry("AD Operator", KeywordValue(m))>> ELSE <<>>)
       \o <<Entry("Customs and immigration",
                  IF label = "Customs and immigration" /\ cm # <<>>
                  THEN (IF cm = LitMaybe THEN LitOnRequest ELSE KeywordValue(cm))
                  ELSE LitNIL)>>
       \o <<Entry("ATS", IF own("ATS") THEN KeywordValue(m) ELSE LitNIL)>>
       \o (IF own("AD Administration")
           THEN <<>> ELSE <<Entry("AD Administration", LitNIL)>>)
       \o (IF own("AD Operator") THEN <<>> ELSE <<Entry("AD Operator", LitNIL)>>)

\* GeorgiaAIPScraperPlaywright._parse_operational_hours on the same text: the
\* four keys of its result, under the labels of the fields.
GeorgiaRow(label, value) ==
    LET m == Leftmost(value, <<LitH24, LitNIL>>)
        rg == RangeIn(value)
        cm == Leftmost(value, <<LitH24, LitNIL, LitOnRequest, LitMaybe>>)
    IN <<Entry("AD Administration",
               IF label = "AD Administration" /\ m # <<>>
               THEN KeywordValue(m) ELSE LitNIL),
         Entry("AD Operator",
               IF label # "AD Operator" THEN LitNIL
               ELSE IF m # <<>> THEN KeywordValue(m)
               ELSE IF rg # <<>> THEN RangeValue(rg[1])
               ELSE LitNIL),
         Entry("Customs and immigration",
               IF label = "Customs and immigration" /\ cm # <<>>
               THEN (IF cm \in {LitOnRequest, LitMaybe} THEN LitOnRequest
                     ELSE KeywordValue(cm))
               ELSE LitNIL),
         Entry("ATS", IF label = "ATS" /\ m # <<>> THEN KeywordValue(m) ELSE LitNIL)>>

\* The service patterns are searched in line.upper() without IGNORECASE, so
\* only a pattern without a lower-case letter can match: 'ATS[:\s]*'.
ServiceOf(label) == IF label = "ATS" THEN <<"ATS">> ELSE <<>>

\* EstoniaAIPScraperPlaywright._parse_operational_hours on a line 'label:
\* value' that is not the one-line table: the service patterns line by line,
\* then the day ranges, then the H24 pattern, then the placeholder.
EstoniaRow(label, value) ==
    LET service == ServiceOf(label)
        g == Leftmost(value, <<LitH24, Lit24H, Lit24HR, Lit24sHR>>)
        byService ==
            IF service = <<>> \/ g = <<>> THEN <<>>
            ELSE IF Contains(g, LitH24) \/ Contains(g, Lit24H)
                 THEN <<Entry(service[1], LitH24)>>
            ELSE IF Contains(g, LitNIL) THEN <<Entry(service[1], LitNIL)>>
            ELSE <<>>
        byKeyword ==
            IF WordMatch(value, <<LitH24, Lit24H, Lit24HR, Lit24sHR>>)
            THEN <<Entry("H24", LitH24)>> ELSE <<>>
    IN IF byService # <<>> THEN byService
       ELSE IF byKeyword # <<>> THEN byKeyword
       ELSE <<Entry("General", LitNotAvailable)>>

\* EurocontrolGenericScraper._parse_operational_hours: every match of every
\* pattern is reported as written, with '.' replaced by ':'.
EurocontrolRow(label, value) ==
    LET k == Leftmost(value, <<LitH24, LitHs24, Lit24H, Lit24HR, Lit24sHR>>)
        r == PlainRangeIn(value)
        found == (IF k # <<>> THEN <<Entry("General", Replace(k, ".", ":"))>> ELSE <<>>)
                 \o (IF r # <<>> THEN <<Entry("General", Replace(r, ".", ":"))>> ELSE <<>>)
    IN IF found # <<>> THEN found ELSE <<Entry("General", LitNotAvailable)>>

RowParsers == {"BASE", "GEORGIA", "ESTONIA", "EUROCONTROL"}

ParseRow(p, label, value) ==
    CASE p = "BASE" -> BaseRow(label, value)
      [] p = "GEORGIA" -> GeorgiaRow(label, value)
      [] p = "ESTONIA" -> EstoniaRow(label, value)
      [] p = "EUROCONTROL" -> EurocontrolRow(label, value)

\* The value reported for the field: the entry of its label, or the first
\* entry when the parser does not label its entries by field.
Reported(label, entries) ==
    LET own == {i \in DOMAIN entries : entries[i].day = label}
    IN IF own = {} THEN entries[1].hours
       ELSE entries[CHOOSE i \in own : \A k \in own : i <= k].hours

RowInit ==
    /\ klabel \in Fields
    /\ kvalue \in RawValues
    /\ kparser \in RowParsers
    /\ kentries = <<>>
    /\ kagain = <<>>
    /\ kstep = 0

RowIdle ==
    /\ klabel = "ATS" /\ kvalue = <<>> /\ kparser = "BASE"
    /\ kentries = <<>> /\ kagain = <<>> /\ kstep = 0

\* operational_hours = self._parse_operational_hours(text)
NormalizeRow ==
    /\ kstep = 0
    /\ kentries' = ParseRow(kparser, klabel, kvalue)
    /\ kstep' = 1
    /\ UNCHANGED <<klabel, kvalue, kparser, kagain>>
    /\ UNCHANGED notRow

\* The same parser on a row that holds the value it reported.
NormalizeAgain ==
    /\ kstep = 1
    /\ kagain' = ParseRow(kparser, klabel, Reported(klabel, kentries))
    /\ kstep' = 2
    /\ UNCHANGED <<klabel, kvalue, kparser, kentries>>
    /\ UNCHANGED notRow

RowNext == NormalizeRow \/ NormalizeAgain

\* C21: when the value of a field's row is one of the keyword forms 'H24',
\* '24H', '24 HR', the value reported for the field is 'H24': an entry holds
\* it, and no entry of the field (or of the unlabelled days "General" and
\* "H24") holds the raw form, 'NIL' or the placeholder.
C21_KeywordFormsToH24 ==
    (kstep >= 1 /\ kvalue \in KeywordForms) =>
        /\ \E i \in DOMAIN kentries : kentries[i].hours = LitH24
        /\ \A i \in DOMAIN kentries :
              kentries[i].day \in {klabel, "General", "H24"}
                 => kentries[i].hours = LitH24

\* C22: normalizing the value a parser reported gives that value again.
C22_Idempotent ==
    (kstep = 2 /\ kparser \in {"BASE", "GEORGIA"}) =>
        Reported(klabel, kagain) = Reported(klabel, kentries)

\* =========================================================================
\* Part 10. Remarks of the record: _extract_remarks of base_eaip_scraper.py
\* (and the remark extractors of the Georgia and Latvia scrapers),
\* extract_ad22_info / extract_ad23_info of scripts/extract_aip_sections.py
\* and the merge of app.py
\* =========================================================================

\* remarks_text[:200]
ScraperRemarksCap == 200
\* text[remarks_idx:min(ad23_idx, remarks_idx + 500)]
ScraperWindow == 500
\* if len(remarks_text) > 5
ScraperMinRemarks == 5
\* result['remarks'] = remarks[:500]
AipRemarksCap == 500
\* if len(remarks) > 10
AipMinRemarks == 10
\* len('NIL')
NilLen == 3

RemarksFields == {"operationalRemarks", "administrativeRemarks"}

RemarkLengths == {0, 4, 8, 150, 200, 201, 499, 500, 501, 900}

\* _extract_remarks: the length of the value returned for a page whose
\* remarks text (after the label, whitespace collapsed) has n characters.
ScraperRemarks(n) ==
    LET windowed == Smaller(n, ScraperWindow) IN
    IF windowed > ScraperMinRemarks THEN Smaller(windowed, ScraperRemarksCap)
    ELSE NilLen

\* extract_ad22_info / extract_ad23_info: the length of result['remarks'],
\* 0 for None.
AipRemarks(n) == IF n > AipMinRemarks THEN Smaller(n, AipRemarksCap) ELSE 0

RemInit ==
    /\ rfield \in RemarksFields
    /\ rpage \in RemarkLengths
    /\ rpdf \in RemarkLengths
    /\ rscraperOk \in BOOLEAN
    /\ raip = 0
    /\ rrecord = 0
    /\ rpc = "extract"

RemIdle ==
    /\ rfield = "operationalRemarks" /\ rpage = 0 /\ rpdf = 0
    /\ rscraperOk = TRUE /\ raip = 0 /\ rrecord = 0 /\ rpc = "extract"

\* scripts/extract_aip_sections.py writes the data file the service loads.
ExtractAip ==
    /\ rpc = "extract"
    /\ raip' = AipRemarks(rpdf)
    /\ rpc' = "scrape"
    /\ UNCHANGED <<rfield, rpage, rpdf, rscraperOk, rrecord>>
    /\ UNCHANGED notRem

\* airport_info = scraper.get_airport_info(airport_code), {} when it raised
ScrapeRemarks ==
    /\ rpc = "scrape"
    /\ rrecord' = IF rscraperOk THEN ScraperRemarks(rpage) ELSE 0
    /\ rpc' = "merge"
    /\ UNCHANGED <<rfield, rpage, rpdf, rscraperOk, raip>>
    /\ UNCHANGED notRem

\* if ad23.get('remarks'): airport_info['operationalRemarks'] = ad23['remarks']
MergeRemarks ==
    /\ rpc = "merge"
    /\ rrecord' = IF raip # 0 THEN raip ELSE rrecord
    /\ rpc' = "done"
    /\ UNCHANGED <<rfield, rpage, rpdf, rscraperOk, raip>>
    /\ UNCHANGED notRem

RemNext == ExtractAip \/ ScrapeRemarks \/ MergeRemarks

\* C23: the remarks field of the final record never exceeds 200 characters,
\* whether the scraper or the AIP-extracted data supplied it.
C23_RemarksCapped ==
    rpc = "done" => rrecord <= ScraperRemarksCap

\* =========================================================================
\* Part 11. Edition state of a cached instance over successive sessions:
\* _get_base_url / _open_eaip / get_airport_info / close of
\* latvia_aip_scraper_playwright.py, _navigate_to_current_aip of
\* georgia_aip_scraper_playwright.py, scraper_instances of app.py
\* =========================================================================

MaxEditions == 3
MaxSessions == 3

Editions == 1..MaxEditions

\* The edition of Latvia's hard-coded fallback URL.
DefaultEdition == 1

EditionStrategies == {"LATVIA", "GEORGIA"}

\* __init__: base_url = None / current_aip_url = None; get_scraper keeps the
\* instance in scraper_instances for every later request.
EdInit ==
    /\ estrat \in EditionStrategies
    /\ published \in Editions
    /\ stored = 0
    /\ opened = 0
    /\ fresh = FALSE
    /\ epc = "idle"
    /\ sessions = 0

EdIdle ==
    /\ estrat = "LATVIA" /\ published = 1 /\ stored = 0 /\ opened = 0
    /\ fresh = FALSE /\ epc = "idle" /\ sessions = 0

\* The authority publishes a new edition (an AIRAC cycle).
Publish ==
    /\ published < MaxEditions
    /\ published' = published + 1
    /\ UNCHANGED <<estrat, stored, opened, fresh, epc, sessions>>
    /\ UNCHANGED notEd

\* get_airport_info: self._setup_browser()
BeginSession ==
    /\ epc = "idle"
    /\ sessions < MaxSessions
    /\ epc' = "setup"
    /\ opened' = 0
    /\ fresh' = FALSE
    /\ UNCHANGED <<estrat, published, stored, sessions>>
    /\ UNCHANGED notEd

\* if self.base_url: return self.base_url
ReuseStored(s) == s = "LATVIA"

\* Latvia _open_eaip -> _get_base_url: the stored base_url is returned when
\* set; else the landing page is read, and the hard-coded URL is stored when
\* no anchor matches. Georgia _navigate_to_current_aip: the landing page is
\* read in every session, and a page without a link raises.
OpenEdition ==
    /\ epc = "setup"
    /\ \E anchorFound \in BOOLEAN :
          IF ReuseStored(estrat) /\ stored # 0
          THEN /\ opened' = stored
               /\ epc' = "opened"
               /\ UNCHANGED <<stored, fresh>>
          ELSE IF anchorFound
          THEN /\ stored' = published
               /\ opened' = published
               /\ fresh' = TRUE
               /\ epc' = "opened"
          ELSE IF estrat = "LATVIA"
          THEN /\ stored' = DefaultEdition
               /\ opened' = DefaultEdition
               /\ fresh' = TRUE
               /\ epc' = "opened"
          ELSE /\ epc' = "raised"
               /\ fresh' = TRUE
               /\ UNCHANGED <<stored, opened>>
    /\ UNCHANGED <<estrat, published, sessions>>
    /\ UNCHANGED notEd

\* finally: self.close(): the browser and the driver are released; base_url
\* and current_aip_url are left as they are.
EndSession ==
    /\ epc \in {"opened", "raised"}
    /\ epc' = "idle"
    /\ sessions' = sessions + 1
    /\ UNCHANGED <<estrat, published, stored, opened, fresh>>
    /\ UNCHANGED notEd

EdNext == Publish \/ BeginSession \/ OpenEdition \/ EndSession

\* C24: the edition resolved by a session is discarded when the session ends
\* and every session resolves the current edition afresh: between sessions
\* the instance holds no edition, and a session that opened an edition read
\* the landing page to find it.
C24_EditionPerSession ==
    /\ epc = "idle" => stored = 0
    /\ epc = "opened" => fresh

\* =========================================================================
\* Part 12. The merge of AIP-extracted data into the scraper's record:
\* get_airport_info of app.py (lines 176-218), get_aip_data_for_airport
\* =========================================================================

\* Fields of the record the merge has no AIP counterpart for.
UnmappedFields == {"airportName", "contacts"}

MergeFields == AipKeys \cup UnmappedFields

\* What a strategy's get_airport_info leaves in airport_info: the keys of its
\* record, or nothing when it raised (airport_info = {}).
ScraperRecords ==
    {[f \in MergeFields |-> IF f \in RecordKeys(s) THEN "scraped" ELSE "absent"] :
        s \in Strategies}
    \cup {[f \in MergeFields |-> "absent"]}

\* The values the data file holds for a mapped field.
AipValues == {"None", "", "extracted"}

\* if adXX.get(key): the value is present and not empty.
AipWinsBroken(v) == v # "None"
AipWins(v) == v \notin {"None", ""}

\* if aip_data: ... airport_info[field] = adXX[key]
Merge(info, entry, aip) ==
    [f \in MergeFields |->
        IF entry /\ f \in AipKeys /\ AipWins(aip[f]) THEN aip[f] ELSE info[f]]

MergeInit ==
    /\ minfo \in ScraperRecords
    /\ mentry \in BOOLEAN
    /\ maip \in [AipKeys -> AipValues]
    /\ mentry = FALSE => maip = [f \in AipKeys |-> "None"]
    /\ mresponse = [f \in MergeFields |-> "absent"]
    /\ mdone = FALSE

MergeIdle ==
    /\ minfo = [f \in MergeFields |-> "absent"]
    /\ mentry = FALSE
    /\ maip = [f \in AipKeys |-> "None"]
    /\ mresponse = [f \in MergeFields |-> "absent"]
    /\ mdone = FALSE

MergeAip ==
    /\ ~mdone
    /\ mresponse' = Merge(minfo, mentry, maip)
    /\ mdone' = TRUE
    /\ UNCHANGED <<minfo, mentry, maip>>
    /\ UNCHANGED notMerge

MergeNext == MergeAip

\* C26: after the merge each mapped field holds the AIP value when that value
\* is present and non-empty, and the scraper's value unchanged otherwise;
\* airportName and contacts are as the scraper left them.
C26_AipPrecedence ==
    mdone =>
        /\ \A f \in AipKeys :
              mresponse[f] = IF mentry /\ maip[f] = "extracted" THEN "extracted"
                             ELSE minfo[f]
        /\ \A f \in UnmappedFields : mresponse[f] = minfo[f]

\* A Base record merged with an entry that holds an operator, an empty
\* customs value and no ATS: the operator is the AIP's, the rest the
\* scraper's.
C26_Witness ==
    /\ mdone /\ mentry
    /\ minfo["adOperator"] = "scraped" /\ maip["adOperator"] = "extracted"
    /\ mresponse["adOperator"] = "extracted"
    /\ maip["customsAndImmigration"] = "" /\ mresponse["customsAndImmigration"] = "scraped"
    /\ maip["ats"] = "None" /\ mresponse["ats"] = "scraped"
    /\ minfo["fireFightingCategory"] = "absent" /\ maip["fireFightingCategory"] = "extracted"
    /\ mresponse["fireFightingCategory"] = "extracted"
    /\ mresponse["airportName"] = "scraped"

\* =========================================================================
\* Part 13. database.py AirportCache: cache_airport, delete_old_cache,
\* get_cached_airport
\* =========================================================================

MaxInserts == 3
MaxDays == 2

\* Codes as the callers pass them, and their upper-case form.
CacheCodes == {"EVRA", "evra", "KJFK"}
UpperCode(c) == IF c = "evra" THEN "EVRA" ELSE c
StoredCodes == {UpperCode(c) : c \in CacheCodes}

\* The airport data of a call.
CacheData == {"d1", "d2"}

NoRow == [data |-> "None", date |-> 0]

CacheInit ==
    /\ rows = {}
    /\ today = 1
    /\ uniqueKey \in BOOLEAN
    /\ inserted = 0
    /\ lastCached = [c \in StoredCodes |-> NoRow]
    /\ cacheOk = FALSE
    /\ got = "None"

CacheIdle ==
    /\ rows = {} /\ today = 1 /\ uniqueKey = FALSE /\ inserted = 0
    /\ lastCached = [c \in StoredCodes |-> NoRow]
    /\ cacheOk = FALSE /\ got = "None"

\* delete().lt('date', today).eq('airport_code', airport_code.upper())
AfterDelete(table, airport_code, day) ==
    {r \in table : ~(r.date < day /\ r.code = UpperCode(airport_code))}

\* cache_airport: delete_old_cache(airport_code), then the insert; an insert
\* the table rejects raises, and the function returns False.
CacheAirport(airport_code, airport_data) ==
    /\ inserted < MaxInserts
    /\ LET kept == AfterDelete(rows, airport_code, today)
           row == [id |-> inserted + 1, code |-> UpperCode(airport_code),
                   date |-> today, data |-> airport_data]
           rejected == uniqueKey /\ \E r \in kept : r.code = row.code /\ r.date = row.date
       IN IF rejected
          THEN /\ rows' = kept
               /\ cacheOk' = FALSE
               /\ UNCHANGED <<inserted, lastCached>>
          ELSE /\ rows' = kept \cup {row}
               /\ inserted' = inserted + 1
               /\ cacheOk' = TRUE
               /\ lastCached' = [lastCached EXCEPT
                                    ![row.code] = [data |-> airport_data, date |-> today]]
    /\ UNCHANGED <<today, uniqueKey, got>>
    /\ UNCHANGED notCache

\* get_cached_airport: result.data[0] of a select without an order, None
\* when no row matches.
GetCachedAirport(airport_code) ==
    /\ LET hit == {r \in rows : r.code = UpperCode(airport_code) /\ r.date = today} IN
       IF hit = {} THEN got' = "None"
       ELSE \E r \in hit : got' = r.data
    /\ UNCHANGED <<rows, today, uniqueKey, inserted, lastCached, cacheOk>>
    /\ UNCHANGED notCache

\* Midnight.
NextDay ==
    /\ today < MaxDays
    /\ today' = today + 1
    /\ got' = "None"
    /\ UNCHANGED <<rows, uniqueKey, inserted, lastCached, cacheOk>>
    /\ UNCHANGED notCache

CacheNext ==
    \/ \E c \in CacheCodes, d \in CacheData : CacheAirport(c, d)
    \/ \E c \in CacheCodes : GetCachedAirport(c)
    \/ NextDay

\* C27: after any sequence of successful cache_airport calls the table holds
\* at most one row per (upper-cased code, today), and that row is the data
\* cached last for the airport, which is what get_cached_airport returns.
C27_OneRowPerDay ==
    \A c \in StoredCodes :
        LET hit == {r \in rows : r.code = c /\ r.date = today} IN
        /\ Cardinality(hit) <= 1
        /\ lastCached[c].date = today => \A r \in hit : r.data = lastCached[c].data

\* ---------------------------------------------------------------------------
\* Part 14. cleanup_scraper over the cached instances, app.py lines 434-445:
\* under the lock, for each instance, scraper.close() inside try/except when
\* the instance has a close attribute, then scraper_instances.clear().
\* ---------------------------------------------------------------------------

MaxCached == 3

CleanupSlots == 1..MaxCached

\* The close styles of the strategy classes: Base and its generated country
\* classes have _teardown and no close; Georgia, India and Latvia wrap each
\* step of close in its own try/except; Finland and the Eurocontrol generic
\* scraper start their browser in __init__ and close it without a try.
CloseStyles == {"BASE", "GEORGIA", "FINLAND"}

\* hasattr(scraper, 'close')
HasClose(k) == k # "BASE"

\* __init__ calls setup_browser() / _setup(): the instance holds a browser
\* and a driver from construction on.
HoldsFromInit(k) == k = "FINLAND"

\* close without a try: an exception of browser.close() leaves close before
\* playwright.stop().
CloseRaises(k) == k = "FINLAND"

CleanupInit ==
    /\ cached \in [CleanupSlots -> CloseStyles \cup {"ABSENT"}]
    /\ cbrowser \in [CleanupSlots -> BOOLEAN]
    /\ \A i \in CleanupSlots :
          /\ cached[i] = "ABSENT" => ~cbrowser[i]
          /\ HoldsFromInit(cached[i]) => cbrowser[i]
    /\ cdriver = cbrowser
    /\ wasCached = {}
    /\ todo = {}
    /\ logged = {}
    /\ cpc = "idle"

CleanupIdle ==
    /\ cached = [i \in CleanupSlots |-> "ABSENT"]
    /\ cbrowser = [i \in CleanupSlots |-> FALSE]
    /\ cdriver = [i \in CleanupSlots |-> FALSE]
    /\ wasCached = {}
    /\ todo = {}
    /\ logged = {}
    /\ cpc = "idle"

\* with scraper_lock: for country, scraper in scraper_instances.items():
BeginCleanup ==
    /\ cpc = "idle"
    /\ cpc' = "loop"
    /\ wasCached' = {i \in CleanupSlots : cached[i] # "ABSENT"}
    /\ todo' = {i \in CleanupSlots : cached[i] # "ABSENT"}
    /\ UNCHANGED <<cached, cbrowser, cdriver, logged>>
    /\ UNCHANGED notCleanup

\* One iteration of the loop, in the dictionary's order.  fails: the
\* instance's browser.close() raises.
CloseInstance(fails) ==
    /\ cpc = "loop"
    /\ todo # {}
    /\ LET i == CHOOSE j \in todo : \A k \in todo : j <= k
           k == cached[i]
           raised == fails /\ cbrowser[i] /\ HasClose(k)
       IN  /\ todo' = todo \ {i}
           /\ IF ~HasClose(k)
              THEN UNCHANGED <<cbrowser, cdriver, logged>>
              ELSE IF raised /\ CloseRaises(k)
              THEN /\ logged' = logged \cup {i}
                   /\ UNCHANGED <<cbrowser, cdriver>>
              ELSE \* both steps ran; stopping the driver ends its browser
                   /\ cbrowser' = [cbrowser EXCEPT ![i] = FALSE]
                   /\ cdriver' = [cdriver EXCEPT ![i] = FALSE]
                   /\ UNCHANGED logged
    /\ UNCHANGED <<cached, wasCached, cpc>>
    /\ UNCHANGED notCleanup

\* scraper_instances.clear()
ClearInstances ==
    /\ cpc = "loop"
    /\ todo = {}
    /\ cached' = [i \in CleanupSlots |-> "ABSENT"]
    /\ cpc' = "done"
    /\ UNCHANGED <<cbrowser, cdriver, wasCached, todo, logged>>
    /\ UNCHANGED notCleanup

CleanupNext ==
    \/ BeginCleanup
    \/ \E fails \in BOOLEAN : CloseInstance(fails)
    \/ ClearInstances

\* C28: when cleanup_scraper returns, scraper_instances is empty and every
\* instance it held has its browser closed and its driver stopped, also
\* when the close of an instance raised.
C28_AllReleased ==
    cpc = "done" =>
        /\ \A i \in CleanupSlots : cached[i] = "ABSENT"
        /\ \A i \in wasCached : ~cbrowser[i] /\ ~cdriver[i]

\* C29: no request calls get_airport_info on an instance cleanup_scraper
\* has closed: the step of a request thread from get_scraper's return to the
\* scraper.get_airport_info call (Respond) never happens with the instance
\* among the closed ones.
C29_NoUseAfterClose ==
    [][\A t \in Threads :
          (pc[t] = "returned" /\ pc'[t] = "responded") => result[t] \notin closed]_vars

\* Rank of a rung in the ladder.
Rung(a) == CASE a = "click" -> 1 [] a = "href" -> 2 [] a = "direct" -> 3

NavFailure == npc = "raised" /\ failedAt \in {"edition", "locate", "click", "href", "direct"}

\* C3: field extraction runs only on a page text that satisfies the acceptance
\* test (it holds the airport code or is longer than the threshold) and that
\* an attempt of the ladder accepted; after a navigation attempt that raised,
\* nothing is extracted and no record is returned.
C3_ExtractOnlyAccepted ==
    /\ extracted => /\ Accepted(pageHasCode, pageLen)
                    /\ acceptedBy # "none"
                    /\ ~gotoFailed
    /\ npc = "returned" => extracted

\* C4: in _open_airport of the Georgia and India strategies the rungs are
\* attempted in ladder order, the ladder stops at the first accepted attempt,
\* and the failure of an exhausted ladder is raised only after every rung that
\* was available (click and href need the anchor, href needs a usable href)
\* has been attempted.
C4_LadderOrder ==
    strat \in {"GEORGIA", "INDIA"} =>
        /\ \A i, j \in DOMAIN attempts :
              i < j => Rung(attempts[i]) <= Rung(attempts[j])
        /\ acceptedBy # "none" => attempts[Len(attempts)] = acceptedBy
        /\ (npc = "raised" /\ failedAt = "direct") =>
              /\ anchor => \E i \in DOMAIN attempts : attempts[i] = "click"
              /\ (anchor /\ hrefOk) => \E i \in DOMAIN attempts : attempts[i] = "href"
              /\ \E i \in DOMAIN attempts : attempts[i] = "direct"

\* C5: when the landing page holds no anchor matching a current-issue
\* heuristic, edition resolution raises, and no later step (opening the
\* edition, locating the airport, extraction) runs.
C5_NoAnchorRaises ==
    landing = "none" =>
        /\ npc = "raised" /\ failedAt = "edition"
        /\ current_aip_url = "unset"
        /\ attempts = <<>> /\ ~extracted

C7_RecordComplete ==
    /\ npc = "returned" => SchemaKeys \subseteq record
    /\ (hpc = "responded" /\ status = 200) => SchemaKeys \subseteq response

\* =========================================================================
\* Specifications
\* =========================================================================

InitAll == RegInit /\ NavInit /\ HoursIdle /\ SessIdle /\ ResIdle /\ DetIdle /\ SecIdle /\ FixIdle /\ RowIdle /\ RemIdle /\ EdIdle /\ MergeIdle /\ CacheIdle /\ CleanupIdle

SpecRegistry == InitAll /\ [][RegNext]_vars

SpecNav == InitAll /\ [][NavNext]_vars

InitHours == RegInit /\ NavInit /\ HoursInit /\ SessIdle /\ ResIdle /\ DetIdle /\ SecIdle /\ FixIdle /\ RowIdle /\ RemIdle /\ EdIdle /\ MergeIdle /\ CacheIdle /\ CleanupIdle

SpecHours == InitHours /\ [][HoursNext]_vars

InitSession == RegInit /\ NavInit /\ HoursIdle /\ SessInit /\ ResIdle /\ DetIdle /\ SecIdle /\ FixIdle /\ RowIdle /\ RemIdle /\ EdIdle /\ MergeIdle /\ CacheIdle /\ CleanupIdle

SpecSession == InitSession /\ [][SessNext]_vars

\* Each page operation returns or times out, so a session that can take a
\* step takes it.
SpecNavFair == InitAll /\ [][NavNext]_vars /\ WF_vars(NavNext)

InitResolver == RegInit /\ NavInit /\ HoursIdle /\ SessIdle /\ ResInit /\ DetIdle /\ SecIdle /\ FixIdle /\ RowIdle /\ RemIdle /\ EdIdle /\ MergeIdle /\ CacheIdle /\ CleanupIdle

SpecResolver == InitResolver /\ [][ResNext]_vars

InitDetector == RegInit /\ NavInit /\ HoursIdle /\ SessIdle /\ ResIdle /\ DetInit /\ SecIdle /\ FixIdle /\ RowIdle /\ RemIdle /\ EdIdle /\ MergeIdle /\ CacheIdle /\ CleanupIdle

SpecDetector == InitDetector /\ [][DetNext]_vars

InitSection ==
    RegInit /\ NavInit /\ HoursIdle /\ SessIdle /\ ResIdle /\ DetIdle /\ SecInit /\ FixIdle /\ RowIdle /\ RemIdle /\ EdIdle /\ MergeIdle /\ CacheIdle /\ CleanupIdle

SpecSection == InitSection /\ [][SecNext]_vars

InitFixture ==
    RegInit /\ NavInit /\ HoursIdle /\ SessIdle /\ ResIdle /\ DetIdle /\ SecIdle /\ FixInit /\ RowIdle /\ RemIdle /\ EdIdle /\ MergeIdle /\ CacheIdle /\ CleanupIdle

SpecFixture == InitFixture /\ [][FixNext]_vars

InitRow ==
    RegInit /\ NavInit /\ HoursIdle /\ SessIdle /\ ResIdle /\ DetIdle /\ SecIdle /\ FixIdle /\ RowInit /\ RemIdle /\ EdIdle /\ MergeIdle /\ CacheIdle /\ CleanupIdle

SpecRow == InitRow /\ [][RowNext]_vars

InitRemarks ==
    RegInit /\ NavInit /\ HoursIdle /\ SessIdle /\ ResIdle /\ DetIdle /\ SecIdle /\ FixIdle /\ RowIdle /\ RemInit /\ EdIdle /\ MergeIdle /\ CacheIdle /\ CleanupIdle

SpecRemarks == InitRemarks /\ [][RemNext]_vars

InitEdition ==
    RegInit /\ NavInit /\ HoursIdle /\ SessIdle /\ ResIdle /\ DetIdle /\ SecIdle /\ FixIdle /\ RowIdle /\ RemIdle /\ EdInit /\ MergeIdle /\ CacheIdle /\ CleanupIdle

SpecEdition == InitEdition /\ [][EdNext]_vars

InitMerge ==
    RegInit /\ NavInit /\ HoursIdle /\ SessIdle /\ ResIdle /\ DetIdle /\ SecIdle /\ FixIdle /\ RowIdle /\ RemIdle /\ EdIdle /\ MergeInit /\ CacheIdle /\ CleanupIdle

SpecMerge == InitMerge /\ [][MergeNext]_vars

InitCache ==
    RegInit /\ NavInit /\ HoursIdle /\ SessIdle /\ ResIdle /\ DetIdle /\ SecIdle /\ FixIdle /\ RowIdle /\ RemIdle /\ EdIdle /\ MergeIdle /\ CacheInit /\ CleanupIdle

SpecCache == InitCache /\ [][CacheNext]_vars

InitCleanup ==
    RegInit /\ NavInit /\ HoursIdle /\ SessIdle /\ ResIdle /\ DetIdle /\ SecIdle /\ FixIdle /\ RowIdle /\ RemIdle /\ EdIdle /\ MergeIdle /\ CacheIdle /\ CleanupInit

SpecCleanup == InitCleanup /\ [][CleanupNext]_vars

====
